---- MODULE Spec2Model ----
(***************************************************************************)
(* Model of flash-tool.c: a NAND flash dump / program / erase tool that    *)
(* bit-bangs the NAND control bus and I/O bus through two FTDI channels.   *)
(*                                                                         *)
(* The two libftdi channels are modelled as a recording transport: every   *)
(* ftdi_write_data, ftdi_read_pins and ftdi_set_bitmode call appends one   *)
(* event to `trace`.  The shadows controlbus_value and iobus_value are the *)
(* C globals of the same names.  The _usleep delays carry no state and are *)
(* not modelled.                                                           *)
(***************************************************************************)
EXTENDS Integers, Sequences, FiniteSets, TLC

VARIABLES controlbus_value, iobus_value, trace, pc, params, loc, host,
          seq, last_call

vars == <<controlbus_value, iobus_value, trace, pc, params, loc, host,
          seq, last_call>>

(***************************************************************************)
(* Program constants                                                       *)
(***************************************************************************)
PIN_CLE == 1
PIN_ALE == 2
PIN_nCE == 4
PIN_nWE == 8
PIN_nRE == 16
PIN_nWP == 32
PIN_RDY == 64
PIN_LED == 128
STATUSREG_IO0 == 1
PAGE_PER_BLOCK == 64
BLOCK_COUNT == 2048
DEFAULT_PAGE_COUNT == 131072
EXIT_FAILURE == 1
DEFAULT_START_PAGE == 0
DEFAULT_DELAY == 0
CMD_READID == 144
CMD_READ1 == <<0, 48>>
CMD_BLOCKERASE == <<96, 208>>
CMD_READSTATUS == 112
CMD_PAGEPROGRAM == <<128, 16>>
ID_register_exp == <<173, 220, 16, 149, 84>>

OFF == 0
ON == 1
IOBUS_IN == 0
IOBUS_OUT == 1

(***************************************************************************)
(* Bounds of the model                                                     *)
(***************************************************************************)
\* bytes per page in the model (2112 in the program)
PAGE_SIZE == 2
\* most RDY = 0 samples the chip answers to one wait_while_busy
MaxBusy == 1
\* most pages / blocks one driver run goes over
MaxCount == 2
\* most primitive calls of one run of the primitive harness
MaxPrimCalls == 2

\* most calls of program_page, read_page and erase_block against the
\* simulated chip
MaxChipOps == 2

\* most options on one command line
MaxArgs == 3

(***************************************************************************)
(* Bytes and pins                                                          *)
(***************************************************************************)
\* (v & pin) != 0 for a single-bit pin mask
HasPin(v, pin) == (v \div pin) % 2 = 1

\* a pin set that never raises nWP
controlbus_pin_set_protected(v, pin, val) ==
  IF pin = PIN_nWP THEN (IF HasPin(v, pin) THEN v - pin ELSE v)
  ELSE IF val = ON
    THEN (IF HasPin(v, pin) THEN v ELSE v + pin)
    ELSE (IF HasPin(v, pin) THEN v - pin ELSE v)

\* controlbus_pin_set / iobus_pin_set on a shadow value
controlbus_pin_set(v, pin, val) ==
  IF val = ON
    THEN (IF HasPin(v, pin) THEN v ELSE v + pin)
    ELSE (IF HasPin(v, pin) THEN v - pin ELSE v)

Ev(op, v) == [op |-> op, v |-> v]

\* a bus state: both shadows, the transport record and a return value
Bus(cv, iv, tr) == [cv |-> cv, iv |-> iv, tr |-> tr, ret |-> 0, reg |-> <<>>]

CtrlSet(b, pin, val) == [b EXCEPT !.cv = controlbus_pin_set(@, pin, val)]

controlbus_update_output(b) == [b EXCEPT !.tr = Append(@, Ev("cw", b.cv))]

iobus_set_value(b, value) == [b EXCEPT !.iv = value]

iobus_update_output(b) == [b EXCEPT !.tr = Append(@, Ev("iw", b.iv))]

iobus_set_direction(b, inout) == [b EXCEPT !.tr = Append(@, Ev("dir", inout))]

iobus_read_input(b, sample) == [b EXCEPT !.tr = Append(@, Ev("ir", sample))]

\* a read of the control pins that takes the sample over into the shadow
controlbus_read_input_kept(b, sample) ==
  [b EXCEPT !.cv = sample, !.tr = Append(@, Ev("cr", sample))]

controlbus_read_input(b, sample) == [b EXCEPT !.tr = Append(@, Ev("cr", sample))]

\* set a pin in the shadow and push the shadow
CtrlPush(b, pin, val) == controlbus_update_output(CtrlSet(b, pin, val))

\* the byte last written to the control port (0: nothing written yet)
RECURSIVE CtrlPortAt(_, _)
CtrlPortAt(tr, k) ==
  IF k = 0 THEN 0
  ELSE IF tr[k].op = "cw" THEN tr[k].v
  ELSE CtrlPortAt(tr, k - 1)

CtrlPort(tr) == CtrlPortAt(tr, Len(tr))

\* the direction last set on the I/O port
RECURSIVE IoDirAt(_, _)
IoDirAt(tr, k) ==
  IF k = 0 THEN IOBUS_OUT
  ELSE IF tr[k].op = "dir" THEN tr[k].v
  ELSE IoDirAt(tr, k - 1)

(***************************************************************************)
(* Latch primitives                                                        *)
(***************************************************************************)
\* latch_command leaving CLE high behind it
latch_command_cle(b, command) ==
  IF HasPin(b.cv, PIN_nCE) THEN [b EXCEPT !.ret = EXIT_FAILURE]
  ELSE IF ~HasPin(b.cv, PIN_nRE) THEN [b EXCEPT !.ret = EXIT_FAILURE]
  ELSE
    LET b1 == CtrlPush(b, PIN_CLE, ON)
        b2 == CtrlPush(b1, PIN_nWE, OFF)
        b3 == iobus_update_output(iobus_set_value(b2, command))
        b4 == CtrlPush(b3, PIN_nWE, ON)
    IN  [b4 EXCEPT !.ret = 0]

\* latch_command leaving nWP high behind it
latch_command_wp(b, command) ==
  IF HasPin(b.cv, PIN_nCE) THEN [b EXCEPT !.ret = EXIT_FAILURE]
  ELSE IF ~HasPin(b.cv, PIN_nRE) THEN [b EXCEPT !.ret = EXIT_FAILURE]
  ELSE
    LET b1 == CtrlPush(b, PIN_CLE, ON)
        b2 == CtrlPush(b1, PIN_nWE, OFF)
        b3 == iobus_update_output(iobus_set_value(b2, command))
        b4 == CtrlPush(b3, PIN_nWE, ON)
        b5 == CtrlPush(CtrlSet(b4, PIN_nWP, ON), PIN_CLE, OFF)
    IN  [b5 EXCEPT !.ret = 0]

latch_command(b, command) ==
  IF HasPin(b.cv, PIN_nCE) THEN [b EXCEPT !.ret = EXIT_FAILURE]
  ELSE IF ~HasPin(b.cv, PIN_nRE) THEN [b EXCEPT !.ret = EXIT_FAILURE]
  ELSE
    LET b1 == CtrlPush(b, PIN_CLE, ON)
        b2 == CtrlPush(b1, PIN_nWE, OFF)
        b3 == iobus_update_output(iobus_set_value(b2, command))
        b4 == CtrlPush(b3, PIN_nWE, ON)
        b5 == CtrlPush(b4, PIN_CLE, OFF)
    IN  [b5 EXCEPT !.ret = 0]

\* an nWE loop that puts the byte on the I/O port before it lowers nWE
RECURSIVE WriteLoopEarly(_, _, _)
WriteLoopEarly(b, bytes, k) ==
  IF k > Len(bytes) THEN b
  ELSE
    LET b1 == iobus_update_output(iobus_set_value(b, bytes[k]))
        b2 == CtrlPush(b1, PIN_nWE, OFF)
        b3 == CtrlPush(b2, PIN_nWE, ON)
    IN  WriteLoopEarly(b3, bytes, k + 1)

\* the nWE loop shared by latch_address and latch_data_out: one byte per pulse
RECURSIVE WriteLoop(_, _, _)
WriteLoop(b, bytes, k) ==
  IF k > Len(bytes) THEN b
  ELSE
    LET b1 == CtrlPush(b, PIN_nWE, OFF)
        b2 == iobus_update_output(iobus_set_value(b1, bytes[k]))
        b3 == CtrlPush(b2, PIN_nWE, ON)
    IN  WriteLoop(b3, bytes, k + 1)

\* latch_address leaving ALE high behind it
latch_address_ale(b, address) ==
  IF HasPin(b.cv, PIN_nCE) THEN [b EXCEPT !.ret = EXIT_FAILURE]
  ELSE IF HasPin(b.cv, PIN_CLE) THEN [b EXCEPT !.ret = EXIT_FAILURE]
  ELSE IF ~HasPin(b.cv, PIN_nRE) THEN [b EXCEPT !.ret = EXIT_FAILURE]
  ELSE
    LET b1 == CtrlPush(b, PIN_ALE, ON)
        b2 == WriteLoop(b1, address, 1)
    IN  [b2 EXCEPT !.ret = 0]

\* latch_address without its check of CLE
latch_address_nocle(b, address) ==
  IF HasPin(b.cv, PIN_nCE) THEN [b EXCEPT !.ret = EXIT_FAILURE]
  ELSE IF ~HasPin(b.cv, PIN_nRE) THEN [b EXCEPT !.ret = EXIT_FAILURE]
  ELSE
    LET b1 == CtrlPush(b, PIN_ALE, ON)
        b2 == WriteLoop(b1, address, 1)
        b3 == CtrlPush(b2, PIN_ALE, OFF)
    IN  [b3 EXCEPT !.ret = 0]

latch_address(b, address) ==
  IF HasPin(b.cv, PIN_nCE) THEN [b EXCEPT !.ret = EXIT_FAILURE]
  ELSE IF HasPin(b.cv, PIN_CLE) THEN [b EXCEPT !.ret = EXIT_FAILURE]
  ELSE IF ~HasPin(b.cv, PIN_nRE) THEN [b EXCEPT !.ret = EXIT_FAILURE]
  ELSE
    LET b1 == CtrlPush(b, PIN_ALE, ON)
        b2 == WriteLoop(b1, address, 1)
        b3 == CtrlPush(b2, PIN_ALE, OFF)
    IN  [b3 EXCEPT !.ret = 0]

\* the bytes of s from the last to the first
Reverse(s) == [k \in 1..Len(s) |-> s[Len(s) + 1 - k]]

\* latch_data_out sending the buffer from its end
latch_data_out_reversed(b, data) == [WriteLoop(b, Reverse(data), 1) EXCEPT !.ret = 0]

\* latch_data_out stopping one byte short of the buffer
latch_data_out_short(b, data) ==
  [WriteLoop(b, SubSeq(data, 1, Len(data) - 1), 1) EXCEPT !.ret = 0]

\* host-to-chip serial data input; no check of the control bus
latch_data_out(b, data) == [WriteLoop(b, data, 1) EXCEPT !.ret = 0]

\* the nRE loop of latch_register: one sample per pulse
RECURSIVE ReadLoop(_, _, _)
ReadLoop(b, samples, k) ==
  IF k > Len(samples) THEN b
  ELSE
    LET b1 == CtrlPush(b, PIN_nRE, OFF)
        b2 == iobus_read_input(b1, samples[k])
        b3 == CtrlPush(b2, PIN_nRE, ON)
    IN  ReadLoop([b3 EXCEPT !.reg = Append(@, samples[k])], samples, k + 1)

\* latch_register filling the buffer from its end
latch_register_reversed(b, samples) ==
  IF HasPin(b.cv, PIN_nCE) THEN [b EXCEPT !.ret = EXIT_FAILURE]
  ELSE IF ~HasPin(b.cv, PIN_nWE) THEN [b EXCEPT !.ret = EXIT_FAILURE]
  ELSE IF HasPin(b.cv, PIN_ALE) THEN [b EXCEPT !.ret = EXIT_FAILURE]
  ELSE
    LET b1 == iobus_set_direction(b, IOBUS_IN)
        b2 == ReadLoop([b1 EXCEPT !.reg = <<>>], samples, 1)
        b3 == iobus_set_direction(b2, IOBUS_OUT)
    IN  [b3 EXCEPT !.ret = 0, !.reg = Reverse(@)]

\* chip-to-host data output; samples are the bytes the I/O pins answer with,
\* one per requested byte (reg_length = Len(samples))
latch_register(b, samples) ==
  IF HasPin(b.cv, PIN_nCE) THEN [b EXCEPT !.ret = EXIT_FAILURE]
  ELSE IF ~HasPin(b.cv, PIN_nWE) THEN [b EXCEPT !.ret = EXIT_FAILURE]
  ELSE IF HasPin(b.cv, PIN_ALE) THEN [b EXCEPT !.ret = EXIT_FAILURE]
  ELSE
    LET b1 == iobus_set_direction(b, IOBUS_IN)
        b2 == ReadLoop([b1 EXCEPT !.reg = <<>>], samples, 1)
        b3 == iobus_set_direction(b2, IOBUS_OUT)
    IN  [b3 EXCEPT !.ret = 0]

\* the address cycles with the row bytes put before the column bytes
address_cycle_map_row_first(page, column) ==
  << page % 256, (page \div 256) % 256, (page \div 65536) % 256,
     column % 256, (column \div 256) % 256 >>

\* the address cycles with the high byte of column and of page sent first
address_cycle_map_high_first(page, column) ==
  << (column \div 256) % 256, column % 256,
     (page \div 65536) % 256, (page \div 256) % 256, page % 256 >>

\* get_address_cycle_map_x8_toshiba_page
get_address_cycle_map_x8_toshiba_page(page, column) ==
  << column % 256, (column \div 256) % 256,
     page % 256, (page \div 256) % 256, (page \div 65536) % 256 >>

\* wait_while_busy leaving after its first sample, whatever RDY shows
ReadyAlways(controlbus_val) == TRUE

\* the loop condition of wait_while_busy: the sample shows READY
Ready(controlbus_val) == HasPin(controlbus_val, PIN_RDY)

\* the status test taking any set bit of the status byte for a failure
StatusFailedAny(status_register) == status_register # 0

\* the status test of program_page and erase_block
StatusFailed(status_register) == HasPin(status_register, STATUSREG_IO0)

\* is_all_val looking at the first byte only
is_all_val_first(b, val) == b[1] = val

\* is_all_val
is_all_val(b, val) == \A k \in 1..Len(b) : b[k] = val


(***************************************************************************)
(* Inputs: what the transport and the host answer with                     *)
(***************************************************************************)
Uninit == 0 - 1

\* a page buffer holding the same byte everywhere
ConstPage(v) == [k \in 1..PAGE_SIZE |-> v]

\* a page buffer whose first byte differs from the rest
MixedPage(first, rest) == [k \in 1..PAGE_SIZE |-> IF k = 1 THEN first ELSE rest]

\* the ID bytes the chip may answer READ ID with
IdSamples == { ID_register_exp, <<173, 220, 16, 149, 0>> }

\* the status bytes the chip may answer READ STATUS with
StatusSamples == { 1, 224, 225 }

\* the page contents the chip may answer a page read with
PageSamples == { ConstPage(10), MixedPage(0, 255) }

\* what ftdi_read_pins gives on the control port: the driven pins, with RDY
\* as the chip sets it
CtrlSample(tr, rdy) ==
  controlbus_pin_set(CtrlPort(tr), PIN_RDY, IF rdy THEN ON ELSE OFF)

\* a page buffer whose last byte differs from the rest
TailPage(rest, last) ==
  [k \in 1..PAGE_SIZE |-> IF k = PAGE_SIZE THEN last ELSE rest]

\* the pages an input file may hold
FilePages ==
  { ConstPage(255), ConstPage(0), MixedPage(165, 255), TailPage(255, 0) }

\* what may follow the last whole page of an input file: nothing, or a page
\* cut short by one byte
FileTails == { <<>>, SubSeq(MixedPage(165, 255), 1, PAGE_SIZE - 1) }

\* the bytes of a file holding the pages of q one after the other
RECURSIVE FileOf(_)
FileOf(q) == IF q = <<>> THEN <<>> ELSE Head(q) \o FileOf(Tail(q))

RECURSIVE SeqsUpTo(_, _)
SeqsUpTo(S, n) ==
  IF n = 0 THEN { <<>> }
  ELSE LET shorter == SeqsUpTo(S, n - 1)
       IN  shorter \cup { Append(q, x) : q \in { r \in shorter : Len(r) = n - 1 }, x \in S }

\* prog_params_t as parse_prog_params leaves it
Params(start_page, count, test, do_program, input_skip, do_erase, start_block) ==
  [ start_page |-> start_page, count |-> count, test |-> test,
    do_program |-> do_program, input_skip |-> input_skip,
    do_erase |-> do_erase, start_block |-> start_block,
    overwrite |-> 0, delay |-> DEFAULT_DELAY ]

\* atoi: the number the leading digits of str stand for, 0 if there are none;
\* str holds digits 0..9, any other character is Uninit
RECURSIVE atoi_from(_, _, _)
atoi_from(str, k, acc) ==
  IF k > Len(str) \/ str[k] \notin 0..9 THEN acc
  ELSE atoi_from(str, k + 1, 10 * acc + str[k])

atoi(str) == atoi_from(str, 1, 0)

\* reset_prog_params
reset_prog_params == Params(DEFAULT_START_PAGE, 0, 0, 0, 0, 0, 0)

\* the getopt loop of parse_prog_params from option k of argv on; an option
\* getopt does not know, or one that lacks its argument, is "?"; -f and the
\* file name of -p change no parameter kept here
RECURSIVE GetoptLoop(_, _, _)
GetoptLoop(p, argv, k) ==
  IF k > Len(argv) THEN [params |-> p, rc |-> 0]
  ELSE
    LET c == argv[k].opt
        optarg == argv[k].arg
    IN  IF c = "h" THEN [params |-> p, rc |-> 0 - 1]
        ELSE IF c = "?" THEN [params |-> p, rc |-> 1]
        ELSE GetoptLoop(
               CASE c = "b" -> [p EXCEPT !.start_block = atoi(optarg)]
                 [] c = "c" -> [p EXCEPT !.count = atoi(optarg)]
                 [] c = "d" -> [p EXCEPT !.delay = atoi(optarg)]
                 [] c = "E" -> [p EXCEPT !.do_erase = 1]
                 [] c = "f" -> p
                 [] c = "k" -> [p EXCEPT !.input_skip = atoi(optarg)]
                 [] c = "o" -> [p EXCEPT !.overwrite = 1]
                 [] c = "p" -> [p EXCEPT !.do_program = 1]
                 [] c = "s" -> [p EXCEPT !.start_page = atoi(optarg)]
                 [] c = "t" -> [p EXCEPT !.test = 1],
               argv, k + 1)

\* parse_prog_params: the parameters and the return value
parse_prog_params(argv) ==
  LET r == GetoptLoop(reset_prog_params, argv, 1)
      p == r.params
  IN  IF r.rc # 0 THEN r
      ELSE IF p.do_erase # 0 /\ p.start_page # 0 THEN [params |-> p, rc |-> 0 - 1]
      ELSE IF p.start_block # 0 /\ p.start_page # 0 THEN [params |-> p, rc |-> 0 - 1]
      ELSE IF p.start_block # 0
        THEN [params |-> [p EXCEPT !.start_page = p.start_block * PAGE_PER_BLOCK],
              rc |-> 0]
      ELSE [params |-> p, rc |-> 0]

\* count = 0 runs to the end of the device: only where that is within MaxCount
CountsFor(start, total) ==
  { c \in 0..MaxCount : c = 0 => (total - start <= MaxCount /\ total - start >= 0) }

DumpParams ==
  UNION { { Params(s, c, 0, 0, 0, 0, 0) : c \in CountsFor(s, DEFAULT_PAGE_COUNT) } :
            s \in { 10, DEFAULT_PAGE_COUNT - MaxCount, DEFAULT_PAGE_COUNT - 1 } }

ProgramParams ==
  { Params(100, c, 0, 1, k, 0, 0) : c \in 1..MaxCount, k \in {0, 1} }
  \cup { Params(DEFAULT_PAGE_COUNT - 1, 0, 0, 1, 0, 0, 0), Params(0, 1, 0, 1, 0, 1, 0) }

EraseParams ==
  { Params(0, c, 0, 0, 0, 1, 0) : c \in 1..MaxCount }
  \cup { Params(5 * PAGE_PER_BLOCK, c, 0, 0, 0, 1, 5) : c \in 1..MaxCount }
  \cup { Params((BLOCK_COUNT - b) * PAGE_PER_BLOCK, 0, 0, 0, 0, 1, BLOCK_COUNT - b) :
           b \in { 1, MaxCount } }

TestParams == { Params(0, 0, 1, 0, 0, 0, 0) }

ParamSet == DumpParams \cup ProgramParams \cup EraseParams \cup TestParams

\* the NAND command sequence in progress or last run: its name and the part
\* of the transport record it covers
NoSeq == [name |-> "", from |-> 0, to |-> 0, open |-> FALSE]

\* the last call of a latch primitive: its argument, the shadows and the
\* control port before it, the shadows after it, the part of the transport
\* record it covers and its return value
NoCall == [fn |-> "", arg |-> <<>>, from |-> 0, to |-> 0, cv0 |-> 0, iv0 |-> 0,
           port0 |-> 0, cv1 |-> 0, iv1 |-> 0, ret |-> 0]

Locals ==
  [ count |-> 0, page_idx |-> 0, page_idx_max |-> 0, n |-> 0,
    programmed |-> 0, skipped |-> 0, block |-> 0, i |-> 0,
    buf |-> <<>>, addr_cycles |-> <<>>, status_register |-> Uninit,
    ID_register |-> <<Uninit, Uninit, Uninit, Uninit, Uninit>>, mem_large_block |-> ConstPage(Uninit),
    rc |-> 0, ret |-> 0, loops |-> 0, calls |-> 0, log |-> <<>>,
    report |-> <<>>, error |-> <<>>, column |-> 0, entered |-> <<>> ]

\* the calls of read_page, program_page and erase_block so far, in loc.log:
\* a call is entered with its arguments and closed with what it gave
Entered(log, op, page, data) ==
  Append(log, [op |-> op, page |-> page, data |-> data, rc |-> 0, done |-> FALSE])

Closed(log, data, rc) ==
  [log EXCEPT ![Len(log)] = [@ EXCEPT !.data = data, !.rc = rc, !.done = TRUE]]

\* fwrite putting the length of the block in front of it
fwrite_framed(file, block) == (file \o << Len(block) >>) \o block

\* fwrite of one block at the end of a file, fflush of the file
fwrite(file, block) == file \o block

fflush(h) == [h EXCEPT !.flushed = Len(h.sink)]

(***************************************************************************)
(* A simulated chip: it follows the edges of nWE and nRE on the control    *)
(* port with nCE low, latches commands, address bytes and data bytes, and  *)
(* keeps the pages of ChipPages                                            *)
(***************************************************************************)
ChipPages == { 1, 256, 65536 }

\* bitwise AND of the low bits of two bytes: programming only clears bits
RECURSIVE ByteAnd(_, _, _)
ByteAnd(a, b, bits) ==
  IF bits = 0 THEN 0
  ELSE (a % 2) * (b % 2) + 2 * ByteAnd(a \div 2, b \div 2, bits - 1)

\* the chip after reset: every page erased, nothing latched
ChipInit ==
  [ mem |-> [p \in ChipPages |-> ConstPage(255)], cmd |-> 255,
    addr |-> <<>>, data |-> <<>>, row |-> 0, col |-> 0, port |-> 0, io |-> 0 ]

\* column and row of a five-byte address, row of a three-byte address
ChipColumn(addr) == addr[1] + 256 * addr[2]

ChipRow(addr) ==
  LET n == Len(addr) IN addr[n - 2] + 256 * addr[n - 1] + 65536 * addr[n]

\* the page register is programmed into the addressed page
ChipProgrammed(c) ==
  LET row == ChipRow(c.addr)
      col == ChipColumn(c.addr)
  IN  [p \in ChipPages |->
         IF p # row THEN c.mem[p]
         ELSE [k \in 1..PAGE_SIZE |->
                 IF k - col \in 1..Len(c.data)
                   THEN ByteAnd(c.mem[p][k], c.data[k - col], 8)
                   ELSE c.mem[p][k]]]

\* the block holding the addressed row is erased
ChipErased(c) ==
  LET block == ChipRow(c.addr) \div PAGE_PER_BLOCK
  IN  [p \in ChipPages |->
         IF p \div PAGE_PER_BLOCK = block THEN ConstPage(255) ELSE c.mem[p]]

\* a command byte is latched; wp is the level of nWP at the latch
ChipCommand(c, wp) ==
  LET command == c.io
      c1 == [c EXCEPT !.cmd = command]
  IN  IF command \in { CMD_PAGEPROGRAM[1], CMD_BLOCKERASE[1], CMD_READ1[1] }
        THEN [c1 EXCEPT !.addr = <<>>, !.data = <<>>]
      ELSE IF command = CMD_PAGEPROGRAM[2]
        THEN IF c.cmd = CMD_PAGEPROGRAM[1] /\ Len(c.addr) = 5 /\ wp
               THEN [c1 EXCEPT !.mem = ChipProgrammed(c)]
               ELSE c1
      ELSE IF command = CMD_BLOCKERASE[2]
        THEN IF c.cmd = CMD_BLOCKERASE[1] /\ Len(c.addr) = 3 /\ wp
               THEN [c1 EXCEPT !.mem = ChipErased(c)]
               ELSE c1
      ELSE IF command = CMD_READ1[2]
        THEN IF c.cmd = CMD_READ1[1] /\ Len(c.addr) = 5
               THEN [c1 EXCEPT !.row = ChipRow(c.addr), !.col = ChipColumn(c.addr)]
               ELSE c1
      ELSE c1

\* the chip sees one event of the transport record
ChipStep(c, e) ==
  IF e.op = "iw" THEN [c EXCEPT !.io = e.v]
  ELSE IF e.op # "cw" THEN c
  ELSE
    LET c1 == [c EXCEPT !.port = e.v]
        selected == ~HasPin(e.v, PIN_nCE)
        weRise == ~HasPin(c.port, PIN_nWE) /\ HasPin(e.v, PIN_nWE)
        reFall == HasPin(c.port, PIN_nRE) /\ ~HasPin(e.v, PIN_nRE)
    IN  IF selected /\ weRise
          THEN IF HasPin(e.v, PIN_CLE) THEN ChipCommand(c1, HasPin(e.v, PIN_nWP))
               ELSE IF HasPin(e.v, PIN_ALE) THEN [c1 EXCEPT !.addr = Append(@, c.io)]
               ELSE [c1 EXCEPT !.data = Append(@, c.io)]
        ELSE IF selected /\ reFall THEN [c1 EXCEPT !.col = @ + 1]
        ELSE c1

\* the chip c after the events of a transport record from the k-th on; the
\* test of c1 has each step evaluated before the next is taken
RECURSIVE ChipRunFrom(_, _, _)
ChipRunFrom(c, tr, k) ==
  IF k > Len(tr) THEN c
  ELSE LET c1 == ChipStep(c, tr[k])
       IN  IF c1.port >= 0 THEN ChipRunFrom(c1, tr, k + 1) ELSE c1

\* the host files: the bytes of the input file, the offset in it and the
\* pages fread gave so far; the output file and how much of it is flushed;
\* the command line and whether the output file exists at the start;
\* chip tells whether the chip is the simulated one, chipst
\* is the simulated chip as it was after the first chiplen events
Host(src) ==
  [ src |-> src, pos |-> 0, reads |-> <<>>, sink |-> <<>>, flushed |-> 0,
    closed |-> FALSE, argv |-> <<>>, exists |-> FALSE, fault |-> <<>>,
    stuck |-> FALSE,
    chip |-> FALSE, chipst |-> ChipInit, chiplen |-> 0 ]

\* the simulated chip now
ChipNow == ChipRunFrom(host.chipst, trace, host.chiplen + 1)

\* the next n bytes the chip puts on the I/O pins, one per nRE pulse
ChipOut(c, n) ==
  [ k \in 1..n |->
      IF c.cmd = CMD_READSTATUS THEN 224
      ELSE IF c.cmd = CMD_READ1[2] /\ c.row \in ChipPages /\ c.col + k <= PAGE_SIZE
        THEN c.mem[c.row][c.col + k]
      ELSE 255 ]

\* what the chip, simulated or not, answers with
PageAnswers ==
  IF host.chip THEN { ChipOut(ChipNow, PAGE_SIZE) } ELSE PageSamples

StatusAnswers ==
  IF host.chip THEN { ChipOut(ChipNow, 1)[1] } ELSE StatusSamples

RdyAnswers ==
  IF host.chip THEN { loc.loops >= MaxBusy }
  ELSE IF host.stuck THEN { FALSE }
  ELSE BOOLEAN

(***************************************************************************)
(* The program: main and the three drivers                                 *)
(***************************************************************************)
Init ==
  /\ controlbus_value = 0
  /\ iobus_value = 0
  /\ trace = <<>>
  /\ pc = "bringup"
  /\ params \in ParamSet
  /\ loc = Locals
  /\ host \in IF params.do_program = 1
                THEN { Host(FileOf(q) \o t) :
                         q \in SeqsUpTo(FilePages, MaxCount), t \in FileTails }
                ELSE { Host(<<>>) }
  /\ seq = NoSeq
  /\ last_call = NoCall

TheBus == Bus(controlbus_value, iobus_value, trace)

\* take over the bus state a primitive or a step leaves
SetBus(b) ==
  /\ controlbus_value' = b.cv
  /\ iobus_value' = b.iv
  /\ trace' = b.tr

\* a call of a latch primitive with result r, the caller moving on to next
Call(fn, arg, r, next) ==
  /\ SetBus(r)
  /\ last_call' = [ fn |-> fn, arg |-> arg, from |-> Len(trace), to |-> Len(r.tr),
                    cv0 |-> controlbus_value, iv0 |-> iobus_value,
                    port0 |-> CtrlPort(trace), cv1 |-> r.cv, iv1 |-> r.iv,
                    ret |-> r.ret ]
  /\ pc' = next

\* main: the zeroed shadows are pushed and the I/O port is set to output
BringUp ==
  /\ pc = "bringup"
  /\ LET b0 == iobus_set_direction(TheBus, IOBUS_OUT)
         b1 == controlbus_update_output([b0 EXCEPT !.cv = 0])
         b2 == iobus_set_direction(b1, IOBUS_OUT)
         b3 == iobus_update_output(iobus_set_value(b2, 0))
     IN  SetBus(b3)
  /\ pc' = IF params.test = 1 THEN "tests" ELSE "wiring"
  /\ UNCHANGED <<params, loc, host, seq, last_call>>

\* main: both ports are sampled once, the values are only printed
WiringCheck ==
  /\ pc = "wiring"
  /\ LET b1 == iobus_set_direction(TheBus, IOBUS_IN)
         b2 == iobus_read_input(b1, 255)
         b3 == controlbus_read_input(b2, CtrlSample(trace, TRUE))
         b4 == iobus_set_direction(b3, IOBUS_OUT)
     IN  SetBus(b4)
  /\ pc' = "idle"
  /\ UNCHANGED <<params, loc, host, seq, last_call>>

\* main: nRE high, nCE low, nWP low, pushed
IdleState ==
  /\ pc = "idle"
  /\ LET b1 == CtrlSet(TheBus, PIN_nRE, ON)
         b2 == CtrlSet(b1, PIN_nCE, OFF)
         b3 == CtrlSet(b2, PIN_nWP, OFF)
     IN  SetBus(controlbus_update_output(b3))
  /\ pc' = "id_cmd"
  /\ UNCHANGED <<params, loc, host, seq, last_call>>

ReadIdCommand ==
  /\ pc = "id_cmd"
  /\ Call("latch_command", <<CMD_READID>>, latch_command(TheBus, CMD_READID), "id_addr")
  /\ seq' = [name |-> "read_id", from |-> Len(trace), to |-> 0, open |-> TRUE]
  /\ UNCHANGED <<params, loc, host>>

ReadIdAddress ==
  /\ pc = "id_addr"
  /\ Call("latch_address", <<0>>, latch_address(TheBus, <<0>>), "id_reg")
  /\ UNCHANGED <<params, loc, host, seq>>

ReadIdRegister ==
  /\ pc = "id_reg"
  /\ \E id \in IdSamples :
       LET r == latch_register(TheBus, id)
       IN  /\ Call("latch_register", id, r, "dispatch")
           /\ loc' = [loc EXCEPT !.ID_register =
                        IF r.ret = 0 THEN r.reg ELSE @]
  /\ seq' = [seq EXCEPT !.open = FALSE, !.to = Len(trace')]
  /\ UNCHANGED <<params, host>>

\* no driver at all
driver_of_none(p) == "teardown"

\* main: if (do_program) program_file else if (do_erase) erase_flash
\* else dump_memory
driver_of(p) ==
  IF p.do_program = 1 THEN "pf_open"
  ELSE IF p.do_erase = 1 THEN "ef_init"
  ELSE "dm_open"

\* check_ID_register has printed PASS or FAIL; main goes on either way
Dispatch ==
  /\ pc = "dispatch"
  /\ pc' = driver_of(params)
  /\ UNCHANGED <<controlbus_value, iobus_value, trace, params, loc, host,
                 seq, last_call>>

\* wait_while_busy: one sample of the control port per step
WaitPcs == { "rp_wait", "pp_wait", "eb_wait" }

AfterWait(p) ==
  IF p = "rp_wait" THEN "rp_reg"
  ELSE IF p = "pp_wait" THEN "pp_status_cmd"
  ELSE "eb_status_cmd"

WaitWhileBusy ==
  /\ pc \in WaitPcs
  /\ \E rdy \in RdyAnswers :
       /\ ~rdy => loc.loops < MaxBusy
       /\ LET controlbus_val == CtrlSample(trace, rdy)
          IN  /\ SetBus(controlbus_read_input(TheBus, controlbus_val))
              /\ IF Ready(controlbus_val)
                   THEN /\ pc' = AfterWait(pc)
                        /\ loc' = [loc EXCEPT !.loops = 0]
                   ELSE /\ pc' = pc
                        /\ loc' = [loc EXCEPT !.loops = @ + 1]
  /\ UNCHANGED <<params, host, seq, last_call>>


(***************************************************************************)
(* dump_memory                                                             *)
(***************************************************************************)
\* leave a driver with return value r
ReturnWith(l, r) ==
  /\ pc' = "teardown"
  /\ loc' = [l EXCEPT !.ret = r]

Return(r) == ReturnWith(loc, r)

\* a count of 0 that stands for the whole device
count_or_whole(count, total, start) == IF count = 0 THEN total ELSE count

\* int count = params->count; if (count == 0) count = total - start;
count_or_rest(count, total, start) == IF count = 0 THEN total - start ELSE count

\* fopen of the output file, then the page range
DumpOpen ==
  /\ pc = "dm_open"
  /\ \E opened \in BOOLEAN :
       IF ~opened
         THEN /\ ReturnWith([loc EXCEPT !.entered = Append(@, "dump_memory")], 0 - 1)
              /\ UNCHANGED host
         ELSE LET count == count_or_rest(params.count, DEFAULT_PAGE_COUNT,
                                         params.start_page)
              IN  /\ host' = [host EXCEPT !.sink = <<>>]
                  /\ loc' = [loc EXCEPT !.count = count,
                                        !.entered = Append(@, "dump_memory"),
                                        !.page_idx = params.start_page,
                                        !.page_idx_max = params.start_page + count]
                  /\ pc' = "dm_loop"
  /\ UNCHANGED <<controlbus_value, iobus_value, trace, params, seq, last_call>>

\* the loop is over: the file is closed
DumpDone ==
  /\ pc = "dm_loop"
  /\ ~(loc.page_idx < loc.page_idx_max)
  /\ Return(0)
  /\ host' = [host EXCEPT !.closed = TRUE]
  /\ UNCHANGED <<controlbus_value, iobus_value, trace, params, seq, last_call>>

ReadPageCommand0 ==
  /\ pc = "dm_loop"
  /\ loc.page_idx < loc.page_idx_max
  /\ Call("latch_command", <<CMD_READ1[1]>>, latch_command(TheBus, CMD_READ1[1]), "rp_addr")
  /\ seq' = [name |-> "read_page", from |-> Len(trace), to |-> 0, open |-> TRUE]
  /\ loc' = [loc EXCEPT !.log = Entered(@, "read_page", loc.page_idx, <<>>)]
  /\ UNCHANGED <<params, host>>

ReadPageAddress ==
  /\ pc = "rp_addr"
  /\ LET addr_cycles == get_address_cycle_map_x8_toshiba_page(loc.page_idx, 0)
     IN  /\ Call("latch_address", addr_cycles, latch_address(TheBus, addr_cycles), "rp_cmd1")
         /\ loc' = [loc EXCEPT !.addr_cycles = addr_cycles]
  /\ UNCHANGED <<params, host, seq>>

ReadPageCommand1 ==
  /\ pc = "rp_cmd1"
  /\ Call("latch_command", <<CMD_READ1[2]>>, latch_command(TheBus, CMD_READ1[2]), "rp_wait")
  /\ UNCHANGED <<params, loc, host, seq>>

ReadPageRegister ==
  /\ pc = "rp_reg"
  /\ \E page \in PageAnswers :
       LET r == latch_register(TheBus, page)
           block == IF r.ret = 0 THEN r.reg ELSE loc.mem_large_block
       IN  /\ Call("latch_register", page, r, "dm_write")
           /\ loc' = [loc EXCEPT !.mem_large_block = block,
                                 !.log = Closed(@, block, 0)]
  /\ seq' = [seq EXCEPT !.open = FALSE, !.to = Len(trace')]
  /\ UNCHANGED <<params, host>>

\* fwrite of the page, fflush, next page
DumpWrite ==
  /\ pc = "dm_write"
  /\ \E written \in BOOLEAN :
       IF ~written
         THEN /\ Return(0 - 1)
              /\ host' = [host EXCEPT !.closed = TRUE]
         ELSE /\ host' = fflush([host EXCEPT !.sink = fwrite(@, loc.mem_large_block)])
              /\ loc' = [loc EXCEPT !.page_idx = @ + 1]
              /\ pc' = "dm_loop"
  /\ UNCHANGED <<controlbus_value, iobus_value, trace, params, seq, last_call>>

(***************************************************************************)
(* program_page and program_file                                           *)
(***************************************************************************)
\* fseek leaving the file where it is
fseek_nowhere(h, offset) == h

\* fseek(f, offset, SEEK_SET); ftell then gives offset
fseek(h, offset) == [h EXCEPT !.pos = offset]

\* fopen, malloc, the seek over input_skip pages, the page count
ProgramOpen ==
  /\ pc = "pf_open"
  /\ \E opened \in BOOLEAN :
       IF ~opened
         THEN /\ ReturnWith([loc EXCEPT !.entered = Append(@, "program_file")], 0 - 1)
              /\ UNCHANGED host
         ELSE /\ host' = IF params.input_skip # 0
                             THEN fseek(host, params.input_skip * PAGE_SIZE)
                             ELSE host
              /\ loc' = [loc EXCEPT
                   !.count = count_or_rest(params.count, DEFAULT_PAGE_COUNT,
                                           params.start_page),
                   !.n = 0, !.programmed = 0, !.skipped = 0,
                   !.entered = Append(@, "program_file"),
                   !.page_idx = params.start_page]
              /\ pc' = "pf_loop"
  /\ UNCHANGED <<controlbus_value, iobus_value, trace, params, seq, last_call>>

\* fread(buf, PAGE_SIZE, 1, f) gives one whole page
CanRead == host.pos + PAGE_SIZE <= Len(host.src)

\* the page fread gives, and the file after it
fread(h) == SubSeq(h.src, h.pos + 1, h.pos + PAGE_SIZE)

AfterRead(h) ==
  [h EXCEPT !.pos = @ + PAGE_SIZE, !.reads = Append(@, fread(h))]

\* the summary counting the read that ended the loop as a page
ReportAttempts(n, programmed, skipped) == << n + 1, programmed, skipped >>

\* the summary printed at the end: pages gone over, programmed, skipped
Report(n, programmed, skipped) == << n, programmed, skipped >>

\* the loop ends: count pages done, or a short read, which takes what is
\* left of the file
ProgramDone ==
  /\ pc = "pf_loop"
  /\ ~(loc.n < loc.count /\ CanRead)
  /\ ReturnWith([loc EXCEPT !.report = Report(loc.n, loc.programmed, loc.skipped)], 0)
  /\ host' = [host EXCEPT !.closed = TRUE,
                          !.pos = IF loc.n < loc.count /\ @ < Len(host.src)
                                    THEN Len(host.src) ELSE @]
  /\ UNCHANGED <<controlbus_value, iobus_value, trace, params, seq, last_call>>

\* the page read is all 0xFF or all 0x00: it is skipped
NeedsProgram(buf) == ~is_all_val(buf, 255) /\ ~is_all_val(buf, 0)

ProgramSkip ==
  /\ pc = "pf_loop"
  /\ loc.n < loc.count /\ CanRead
  /\ LET buf == fread(host)
     IN  /\ ~NeedsProgram(buf)
         /\ loc' = [loc EXCEPT !.buf = buf, !.skipped = @ + 1,
                               !.page_idx = @ + 1, !.n = @ + 1]
  /\ host' = AfterRead(host)
  /\ pc' = "pf_loop"
  /\ UNCHANGED <<controlbus_value, iobus_value, trace, params, seq, last_call>>

\* the page read is programmed: program_page starts, nWP is set in the shadow
ProgramPageBegin ==
  /\ pc = "pf_loop"
  /\ loc.n < loc.count /\ CanRead
  /\ LET buf == fread(host)
     IN  /\ NeedsProgram(buf)
         /\ loc' = [loc EXCEPT !.buf = buf, !.programmed = @ + 1,
                      !.addr_cycles =
                         get_address_cycle_map_x8_toshiba_page(loc.page_idx, 0),
                      !.log = Entered(@, "program_page", loc.page_idx, buf)]
  /\ host' = AfterRead(host)
  /\ SetBus(CtrlSet(TheBus, PIN_nWP, ON))
  /\ seq' = [name |-> "program_page", from |-> Len(trace), to |-> 0, open |-> TRUE]
  /\ pc' = "pp_cmd0"
  /\ UNCHANGED <<params, last_call>>

ProgramPageCommand0 ==
  /\ pc = "pp_cmd0"
  /\ Call("latch_command", <<CMD_PAGEPROGRAM[1]>>,
          latch_command(TheBus, CMD_PAGEPROGRAM[1]), "pp_addr")
  /\ UNCHANGED <<params, loc, host, seq>>

ProgramPageAddress ==
  /\ pc = "pp_addr"
  /\ Call("latch_address", loc.addr_cycles,
          latch_address(TheBus, loc.addr_cycles), "pp_data")
  /\ UNCHANGED <<params, loc, host, seq>>

ProgramPageData ==
  /\ pc = "pp_data"
  /\ Call("latch_data_out", loc.buf, latch_data_out(TheBus, loc.buf), "pp_cmd1")
  /\ UNCHANGED <<params, loc, host, seq>>

ProgramPageCommand1 ==
  /\ pc = "pp_cmd1"
  /\ Call("latch_command", <<CMD_PAGEPROGRAM[2]>>,
          latch_command(TheBus, CMD_PAGEPROGRAM[2]), "pp_wait")
  /\ UNCHANGED <<params, loc, host, seq>>

ProgramPageStatusCommand ==
  /\ pc = "pp_status_cmd"
  /\ Call("latch_command", <<CMD_READSTATUS>>, latch_command(TheBus, CMD_READSTATUS),
          "pp_status_reg")
  /\ UNCHANGED <<params, loc, host, seq>>

\* a status byte that latch_register did not fill stays uninitialized
ProgramPageStatusRegister ==
  /\ pc = "pp_status_reg"
  /\ \E status \in StatusAnswers :
       LET r == latch_register(TheBus, <<status>>)
       IN  /\ Call("latch_register", <<status>>, r, "pp_end")
           /\ loc' = [loc EXCEPT !.status_register =
                        IF r.ret = 0 THEN r.reg[1] ELSE Uninit]
  /\ UNCHANGED <<params, host, seq>>

\* the bytes an uninitialized status byte may hold
StatusRead(status_register) ==
  IF status_register = Uninit THEN StatusSamples ELSE { status_register }

\* the end of program_page: nWP is cleared in the shadow, the status decides
ProgramPageEnd ==
  /\ pc = "pp_end"
  /\ \E status_register \in StatusRead(loc.status_register) :
       LET rc == IF StatusFailed(status_register) THEN 1 ELSE 0
       IN  loc' = [loc EXCEPT !.rc = rc, !.log = Closed(@, loc.buf, rc)]
  /\ SetBus(CtrlSet(TheBus, PIN_nWP, OFF))
  /\ seq' = [seq EXCEPT !.open = FALSE, !.to = Len(trace')]
  /\ pc' = "pf_ret"
  /\ UNCHANGED <<params, host, last_call>>

\* program_file going on after a program_page that failed
ProgramFailedNever(ret) == FALSE

\* the test of what program_page returned
ProgramFailed(ret) == ret # 0

\* program_file after program_page returned: a failure is reported with the
\* page and the number of the file buffer, and ends the run
ProgramAfterPage ==
  /\ pc = "pf_ret"
  /\ IF ProgramFailed(loc.rc)
       THEN /\ ReturnWith([loc EXCEPT !.error = << loc.page_idx, loc.n >>], 0 - 1)
            /\ host' = [host EXCEPT !.closed = TRUE]
       ELSE /\ loc' = [loc EXCEPT !.page_idx = @ + 1, !.n = @ + 1]
            /\ pc' = "pf_loop"
            /\ UNCHANGED host
  /\ UNCHANGED <<controlbus_value, iobus_value, trace, params, seq, last_call>>


(***************************************************************************)
(* erase_block and erase_flash                                             *)
(***************************************************************************)
EraseInit ==
  /\ pc = "ef_init"
  /\ loc' = [loc EXCEPT
       !.count = count_or_rest(params.count, BLOCK_COUNT, params.start_block),
       !.block = params.start_block, !.i = 0,
       !.entered = Append(@, "erase_flash")]
  /\ pc' = "ef_loop"
  /\ UNCHANGED <<controlbus_value, iobus_value, trace, params, host, seq, last_call>>

EraseDone ==
  /\ pc = "ef_loop"
  /\ ~(loc.i < loc.count)
  /\ Return(0)
  /\ UNCHANGED <<controlbus_value, iobus_value, trace, params, host, seq, last_call>>

\* erase_block starts: nWP is set in the shadow
EraseBlockBegin ==
  /\ pc = "ef_loop"
  /\ loc.i < loc.count
  /\ SetBus(CtrlSet(TheBus, PIN_nWP, ON))
  /\ seq' = [name |-> "erase_block", from |-> Len(trace), to |-> 0, open |-> TRUE]
  /\ loc' = [loc EXCEPT !.log = Entered(@, "erase_block", loc.block, <<>>)]
  /\ pc' = "eb_cmd0"
  /\ UNCHANGED <<params, host, last_call>>

EraseBlockCommand0 ==
  /\ pc = "eb_cmd0"
  /\ Call("latch_command", <<CMD_BLOCKERASE[1]>>,
          latch_command(TheBus, CMD_BLOCKERASE[1]), "eb_addr")
  /\ UNCHANGED <<params, loc, host, seq>>

EraseBlockAddress ==
  /\ pc = "eb_addr"
  /\ LET page == loc.block * PAGE_PER_BLOCK
         addr_cycles == get_address_cycle_map_x8_toshiba_page(page, 0)
         address == << addr_cycles[3], addr_cycles[4], addr_cycles[5] >>
     IN  /\ Call("latch_address", address, latch_address(TheBus, address), "eb_cmd1")
         /\ loc' = [loc EXCEPT !.addr_cycles = addr_cycles]
  /\ UNCHANGED <<params, host, seq>>

EraseBlockCommand1 ==
  /\ pc = "eb_cmd1"
  /\ Call("latch_command", <<CMD_BLOCKERASE[2]>>,
          latch_command(TheBus, CMD_BLOCKERASE[2]), "eb_wait")
  /\ UNCHANGED <<params, loc, host, seq>>

EraseBlockStatusCommand ==
  /\ pc = "eb_status_cmd"
  /\ Call("latch_command", <<CMD_READSTATUS>>, latch_command(TheBus, CMD_READSTATUS),
          "eb_status_reg")
  /\ UNCHANGED <<params, loc, host, seq>>

EraseBlockStatusRegister ==
  /\ pc = "eb_status_reg"
  /\ \E status \in StatusAnswers :
       LET r == latch_register(TheBus, <<status>>)
       IN  /\ Call("latch_register", <<status>>, r, "eb_end")
           /\ loc' = [loc EXCEPT !.status_register =
                        IF r.ret = 0 THEN r.reg[1] ELSE Uninit]
  /\ UNCHANGED <<params, host, seq>>

\* the end of erase_block: nWP is cleared in the shadow, the status decides
EraseBlockEnd ==
  /\ pc = "eb_end"
  /\ \E status_register \in StatusRead(loc.status_register) :
       LET rc == IF StatusFailed(status_register) THEN 1 ELSE 0
       IN  loc' = [loc EXCEPT !.rc = rc, !.log = Closed(@, <<>>, rc)]
  /\ SetBus(CtrlSet(TheBus, PIN_nWP, OFF))
  /\ seq' = [seq EXCEPT !.open = FALSE, !.to = Len(trace')]
  /\ pc' = "ef_ret"
  /\ UNCHANGED <<params, host, last_call>>

\* erase_flash going on after an erase_block that failed
EraseFailedNever(ret) == FALSE

\* the test of what erase_block returned
EraseFailed(ret) == ret # 0

\* erase_flash after erase_block returned
EraseAfterBlock ==
  /\ pc = "ef_ret"
  /\ IF EraseFailed(loc.rc)
       THEN Return(0 - 1)
       ELSE /\ loc' = [loc EXCEPT !.block = @ + 1, !.i = @ + 1]
            /\ pc' = "ef_loop"
  /\ UNCHANGED <<controlbus_value, iobus_value, trace, params, host, seq, last_call>>

(***************************************************************************)
(* run_tests and the end of main                                           *)
(***************************************************************************)
\* test_controlbus / test_iobus: each pin of pins set to val and pushed
RECURSIVE TogglePins(_, _, _, _, _)
TogglePins(b, io, pins, val, k) ==
  IF k > Len(pins) THEN b
  ELSE IF io
    THEN TogglePins(iobus_update_output(
                      [b EXCEPT !.iv = controlbus_pin_set(@, pins[k], val)]),
                    io, pins, val, k + 1)
    ELSE TogglePins(CtrlPush(b, pins[k], val), io, pins, val, k + 1)

test_controlbus(b) ==
  LET pins == << PIN_CLE, PIN_ALE, PIN_nCE, PIN_nWE, PIN_nRE, PIN_nWP, PIN_LED >>
  IN  TogglePins(TogglePins(b, FALSE, pins, ON, 1), FALSE, pins, OFF, 1)

test_iobus(b) ==
  LET pins == << 1, 2, 4, 8, 16, 32, 64, 128 >>
      b1 == TogglePins(TogglePins(b, TRUE, pins, ON, 1), TRUE, pins, OFF, 1)
      b2 == iobus_update_output(iobus_set_value(b1, 255))
      b3 == iobus_update_output(iobus_set_value(b2, 170))
      b4 == iobus_update_output(iobus_set_value(b3, 85))
      b5 == iobus_update_output(iobus_set_value(b4, 0))
      b6 == [b5 EXCEPT !.iv = 85]
  IN  iobus_update_output(b6)

\* close_busses: both channels are released
close_busses(b) ==
  [b EXCEPT !.tr = Append(Append(@, Ev("close", 1)), Ev("close", 2))]

\* main in test mode: the tests, then the ports are released
RunTests ==
  /\ pc = "tests"
  /\ SetBus(close_busses(test_iobus(test_controlbus(TheBus))))
  /\ pc' = "done"
  /\ loc' = [loc EXCEPT !.ret = 0]
  /\ UNCHANGED <<params, host, seq, last_call>>

\* main after the driver: nCE is set in the shadow, the ports are released
Teardown ==
  /\ pc = "teardown"
  /\ SetBus(close_busses(CtrlSet(TheBus, PIN_nCE, ON)))
  /\ pc' = "done"
  /\ UNCHANGED <<params, loc, host, seq, last_call>>

Next ==
  \/ BringUp \/ WiringCheck \/ IdleState
  \/ ReadIdCommand \/ ReadIdAddress \/ ReadIdRegister \/ Dispatch
  \/ WaitWhileBusy
  \/ DumpOpen \/ DumpDone \/ ReadPageCommand0 \/ ReadPageAddress
  \/ ReadPageCommand1 \/ ReadPageRegister \/ DumpWrite
  \/ ProgramOpen \/ ProgramDone \/ ProgramSkip \/ ProgramPageBegin
  \/ ProgramPageCommand0 \/ ProgramPageAddress \/ ProgramPageData
  \/ ProgramPageCommand1 \/ ProgramPageStatusCommand
  \/ ProgramPageStatusRegister \/ ProgramPageEnd \/ ProgramAfterPage
  \/ EraseInit \/ EraseDone \/ EraseBlockBegin \/ EraseBlockCommand0
  \/ EraseBlockAddress \/ EraseBlockCommand1 \/ EraseBlockStatusCommand
  \/ EraseBlockStatusRegister \/ EraseBlockEnd \/ EraseAfterBlock
  \/ RunTests \/ Teardown

Spec == Init /\ [][Next]_vars


(***************************************************************************)
(* The latch primitives on their own: each is called from any state of the *)
(* control shadow, the port holding what the shadow holds                  *)
(***************************************************************************)
PrimShadows == 0..63

PrimCommands == { CMD_READID, CMD_READSTATUS }

PrimAddresses == { <<0>>, <<179, 162, 1>> }

PrimData == { MixedPage(165, 90) }

PrimSamples == { <<0>>, <<173, 220>> }

InitPrim ==
  /\ controlbus_value \in PrimShadows
  /\ iobus_value = 0
  /\ trace = << Ev("dir", IOBUS_OUT), Ev("cw", controlbus_value) >>
  /\ pc = "prim"
  /\ params = Params(0, 0, 0, 0, 0, 0, 0)
  /\ loc = Locals
  /\ host = Host(<<>>)
  /\ seq = NoSeq
  /\ last_call = NoCall

PrimStep ==
  /\ pc = "prim"
  /\ loc.calls < MaxPrimCalls
  /\ loc' = [loc EXCEPT !.calls = @ + 1]
  /\ UNCHANGED <<params, host, seq>>

PrimLatchCommand ==
  /\ PrimStep
  /\ \E command \in PrimCommands :
       Call("latch_command", <<command>>, latch_command(TheBus, command), "prim")

PrimLatchAddress ==
  /\ PrimStep
  /\ \E address \in PrimAddresses :
       Call("latch_address", address, latch_address(TheBus, address), "prim")

PrimLatchDataOut ==
  /\ PrimStep
  /\ \E data \in PrimData :
       Call("latch_data_out", data, latch_data_out(TheBus, data), "prim")

PrimLatchRegister ==
  /\ PrimStep
  /\ \E samples \in PrimSamples :
       Call("latch_register", samples, latch_register(TheBus, samples), "prim")

NextPrim ==
  \/ PrimLatchCommand \/ PrimLatchAddress \/ PrimLatchDataOut \/ PrimLatchRegister

SpecPrim == InitPrim /\ [][NextPrim]_vars


(***************************************************************************)
(* program_page, the page read of dump_memory and erase_block called one   *)
(* after the other against the simulated chip, from the idle state main    *)
(* sets up                                                                 *)
(***************************************************************************)
ChipData == { MixedPage(165, 90), ConstPage(60) }

InitChip ==
  /\ controlbus_value = PIN_nRE
  /\ iobus_value = 0
  /\ trace = << Ev("dir", IOBUS_OUT), Ev("cw", controlbus_value) >>
  /\ pc = "chip"
  /\ params = Params(0, 0, 0, 0, 0, 0, 0)
  /\ loc = Locals
  /\ host = [Host(<<>>) EXCEPT !.chip = TRUE, !.chiplen = Len(trace)]
  /\ seq = NoSeq
  /\ last_call = NoCall

ChipCall ==
  /\ pc = "chip"
  /\ loc.calls < MaxChipOps
  /\ UNCHANGED <<controlbus_value, iobus_value, trace, params, seq, last_call>>

\* program_file reaching program_page(page, data)
ChipProgramPage ==
  /\ ChipCall
  /\ \E page \in ChipPages, data \in ChipData :
       /\ loc' = [loc EXCEPT !.calls = @ + 1, !.page_idx = page, !.n = 0,
                             !.count = 1]
       /\ host' = [host EXCEPT !.src = data, !.pos = 0]
  /\ pc' = "pf_loop"

\* dump_memory reaching the read of one page
ChipReadPage ==
  /\ ChipCall
  /\ \E page \in ChipPages :
       loc' = [loc EXCEPT !.calls = @ + 1, !.page_idx = page,
                          !.page_idx_max = page + 1]
  /\ pc' = "dm_loop"
  /\ UNCHANGED host

\* erase_flash reaching erase_block(block)
ChipEraseBlock ==
  /\ ChipCall
  /\ \E page \in ChipPages :
       loc' = [loc EXCEPT !.calls = @ + 1, !.block = page \div PAGE_PER_BLOCK,
                          !.i = 0, !.count = 1]
  /\ pc' = "ef_loop"
  /\ UNCHANGED host

\* the call is over
ChipReturn ==
  /\ pc \in { "pf_ret", "dm_write", "ef_ret" }
  /\ UNCHANGED loc
  /\ host' = [host EXCEPT !.chipst = ChipNow, !.chiplen = Len(trace)]
  /\ pc' = "chip"
  /\ UNCHANGED <<controlbus_value, iobus_value, trace, params, seq, last_call>>

NextChip ==
  \/ ChipProgramPage \/ ChipReadPage \/ ChipEraseBlock \/ ChipReturn
  \/ WaitWhileBusy
  \/ ReadPageCommand0 \/ ReadPageAddress \/ ReadPageCommand1 \/ ReadPageRegister
  \/ ProgramPageBegin \/ ProgramPageCommand0 \/ ProgramPageAddress
  \/ ProgramPageData \/ ProgramPageCommand1 \/ ProgramPageStatusCommand
  \/ ProgramPageStatusRegister \/ ProgramPageEnd
  \/ EraseBlockBegin \/ EraseBlockCommand0 \/ EraseBlockAddress
  \/ EraseBlockCommand1 \/ EraseBlockStatusCommand \/ EraseBlockStatusRegister
  \/ EraseBlockEnd

SpecChip == InitChip /\ [][NextChip]_vars


(***************************************************************************)
(* get_address_cycle_map_x8_toshiba_page on its own, for pages and columns *)
(* around the byte boundaries of an unsigned int                           *)
(***************************************************************************)
AddrPages ==
  { 0, 1, 255, 256, 65535, 65536, 107187, 131071, 131072, 16777215, 16777221,
    2147483647 }

AddrColumns == { 0, 1, 255, 256, 291, 2047, 2111, 4096, 65827 }

InitAddr ==
  /\ controlbus_value = 0
  /\ iobus_value = 0
  /\ trace = <<>>
  /\ pc = "addr"
  /\ params = Params(0, 0, 0, 0, 0, 0, 0)
  /\ loc = Locals
  /\ host = Host(<<>>)
  /\ seq = NoSeq
  /\ last_call = NoCall

AddressCycleMap ==
  /\ pc = "addr"
  /\ \E page \in AddrPages, column \in AddrColumns :
       loc' = [loc EXCEPT !.page_idx = page, !.column = column,
                 !.addr_cycles = get_address_cycle_map_x8_toshiba_page(page, column)]
  /\ UNCHANGED <<controlbus_value, iobus_value, trace, pc, params, host, seq,
                 last_call>>

NextAddr == AddressCycleMap

SpecAddr == InitAddr /\ [][NextAddr]_vars


(***************************************************************************)
(* main from the command line to the first writes to the ports             *)
(***************************************************************************)
Opt(c, optarg) == [opt |-> c, arg |-> optarg]

ArgOptions ==
  { Opt("s", <<0>>), Opt("s", <<1, 0>>), Opt("b", <<0>>), Opt("b", <<2>>),
    Opt("E", <<>>), Opt("p", <<>>), Opt("t", <<>>), Opt("o", <<>>),
    Opt("h", <<>>), Opt("?", <<>>) }

\* what an output file left by an earlier run holds
OldDump == ConstPage(10)

InitArgs ==
  /\ controlbus_value = 0
  /\ iobus_value = 0
  /\ trace = <<>>
  /\ pc = "parse"
  /\ params = reset_prog_params
  /\ loc = Locals
  /\ host \in { [Host(<<>>) EXCEPT !.argv = a, !.exists = e,
                                   !.sink = IF e THEN OldDump ELSE <<>>] :
                  a \in SeqsUpTo(ArgOptions, MaxArgs), e \in BOOLEAN }
  /\ seq = NoSeq
  /\ last_call = NoCall

\* main: parse_prog_params; any nonzero return ends the program with 1
ParseArgs ==
  /\ pc = "parse"
  /\ LET r == parse_prog_params(host.argv)
     IN  /\ params' = r.params
         /\ IF r.rc # 0
              THEN /\ pc' = "done"
                   /\ loc' = [loc EXCEPT !.ret = 1]
              ELSE /\ pc' = "exists"
                   /\ UNCHANGED loc
  /\ UNCHANGED <<controlbus_value, iobus_value, trace, host, seq, last_call>>

\* an output file that is always overwritten
refuses_overwrite_never(p, exists) == FALSE

\* main: !do_program && !do_erase && !access(filename, F_OK) && !overwrite
refuses_overwrite(p, exists) ==
  p.do_program = 0 /\ p.do_erase = 0 /\ exists /\ p.overwrite = 0

\* main: an output file that exists is not overwritten without -o
ExistsCheck ==
  /\ pc = "exists"
  /\ IF refuses_overwrite(params, host.exists)
       THEN /\ pc' = "done"
            /\ loc' = [loc EXCEPT !.ret = 2]
       ELSE /\ pc' = "bringup"
            /\ UNCHANGED loc
  /\ UNCHANGED <<controlbus_value, iobus_value, trace, params, host, seq, last_call>>

NextArgs == ParseArgs \/ ExistsCheck \/ BringUp

SpecArgs == InitArgs /\ [][NextArgs]_vars

(***************************************************************************)
(* A dump during which one call of the transport fails.  The wrappers      *)
(* controlbus_update_output, iobus_update_output, iobus_read_input and     *)
(* controlbus_read_input drop the return value of ftdi_write_data and      *)
(* ftdi_read_pins, so the failure changes nothing the program holds; what  *)
(* a failed read leaves in its buffer is any byte, as every sample is.     *)
(* host.fault records the page that was being read.                        *)
(***************************************************************************)
InitFault == Init /\ params \in DumpParams

ReadPagePcs == { "rp_addr", "rp_cmd1", "rp_wait", "rp_reg", "dm_write" }

TransportFault ==
  /\ pc \in ReadPagePcs
  /\ host.fault = <<>>
  /\ host' = [host EXCEPT !.fault = << loc.page_idx >>]
  /\ trace' = Append(trace, Ev("fail", Len(trace)))
  /\ UNCHANGED <<controlbus_value, iobus_value, pc, params, loc, seq, last_call>>

NextFault ==
  \/ BringUp \/ WiringCheck \/ IdleState
  \/ ReadIdCommand \/ ReadIdAddress \/ ReadIdRegister \/ Dispatch
  \/ WaitWhileBusy \/ DumpOpen \/ DumpDone \/ ReadPageCommand0 \/ ReadPageAddress
  \/ ReadPageCommand1 \/ ReadPageRegister \/ DumpWrite \/ Teardown
  \/ TransportFault

SpecFault == InitFault /\ [][NextFault]_vars

(***************************************************************************)
(* wait_while_busy on its own, called with any control shadow, the chip    *)
(* either answering ready after at most MaxBusy busy samples or, with      *)
(* host.stuck, never; of the endless run of samples of a chip that is      *)
(* stuck the first MaxBusy are kept.  The loop is the only thing the       *)
(* process does, so its next step is always taken.                         *)
(***************************************************************************)
InitWait ==
  /\ controlbus_value \in PrimShadows
  /\ iobus_value = 0
  /\ trace = << Ev("dir", IOBUS_OUT), Ev("cw", controlbus_value) >>
  /\ pc \in WaitPcs
  /\ params = Params(0, 0, 0, 0, 0, 0, 0)
  /\ loc = Locals
  /\ host \in { [Host(<<>>) EXCEPT !.stuck = s] : s \in BOOLEAN }
  /\ seq = NoSeq
  /\ last_call = NoCall

NextWait == WaitWhileBusy

SpecWait == InitWait /\ [][NextWait]_vars /\ WF_vars(NextWait)


(***************************************************************************)
(* Reading the transport record                                            *)
(***************************************************************************)
\* event j is a write to the control port
IsCw(j) == trace[j].op = "cw"

\* event j is a control write that changes pin from what the port held
Rises(j, pin) ==
  IsCw(j) /\ HasPin(trace[j].v, pin) /\ ~HasPin(CtrlPortAt(trace, j - 1), pin)

Falls(j, pin) ==
  IsCw(j) /\ ~HasPin(trace[j].v, pin) /\ HasPin(CtrlPortAt(trace, j - 1), pin)

\* event j is an edge of nWE or nRE
Pulse(j) ==
  Rises(j, PIN_nWE) \/ Falls(j, PIN_nWE) \/ Rises(j, PIN_nRE) \/ Falls(j, PIN_nRE)

\* event j is the nWE rising edge that latches a command byte out of cmds
CommandLatchedAt(j, cmds) ==
  /\ j >= 2
  /\ Rises(j, PIN_nWE)
  /\ HasPin(trace[j].v, PIN_CLE)
  /\ trace[j - 1].op = "iw"
  /\ trace[j - 1].v \in cmds

ConfirmCommands == { CMD_READ1[2], CMD_BLOCKERASE[2], CMD_PAGEPROGRAM[2] }

SetupCommands == { CMD_PAGEPROGRAM[1], CMD_BLOCKERASE[1] }

\* the last event of the sequence in progress or last run
SeqEnd == IF seq.open THEN Len(trace) ELSE seq.to

SeqEvents == (seq.from + 1)..SeqEnd

\* the events of the last call of a latch primitive
CallEvents == (last_call.from + 1)..last_call.to

\* the four pins of v that latch_command is to leave alone
KeptPins(v) ==
  << HasPin(v, PIN_nCE), HasPin(v, PIN_nRE), HasPin(v, PIN_nWP), HasPin(v, PIN_ALE) >>

\* the position of the last sample of the I/O port in the record, 0 if none
RECURSIVE LastIoSampleAt(_)
LastIoSampleAt(k) ==
  IF k = 0 THEN 0
  ELSE IF trace[k].op = "ir" THEN k
  ELSE LastIoSampleAt(k - 1)

\* program_page or erase_block has just returned to its driver
SequenceReturned == pc \in { "pf_ret", "ef_ret" }

(***************************************************************************)
(* C1. Every successful program_page / erase_block shows exactly one       *)
(* rising edge of nWP on the control port, before the setup command is     *)
(* latched, and exactly one falling edge of nWP, after the status byte was *)
(* sampled and before the call returns.                                    *)
(***************************************************************************)
C1_WriteProtectEdges ==
  (SequenceReturned /\ loc.rc = 0) =>
    LET ups == { j \in SeqEvents : Rises(j, PIN_nWP) }
        downs == { j \in SeqEvents : Falls(j, PIN_nWP) }
        setup == { j \in SeqEvents : CommandLatchedAt(j, SetupCommands) }
    IN  /\ Cardinality(ups) = 1
        /\ \A j \in ups : \A k \in setup : j < k
        /\ Cardinality(downs) = 1
        /\ \A j \in downs : j > LastIoSampleAt(Len(trace))

(***************************************************************************)
(* C2. Whenever no program_page / erase_block call is in progress, from    *)
(* the idle push on, the control port holds nWP low.                       *)
(***************************************************************************)
OutsideModifyPcs ==
  { "id_cmd", "id_addr", "id_reg", "dispatch",
    "dm_open", "dm_loop", "rp_addr", "rp_cmd1", "rp_wait", "rp_reg", "dm_write",
    "pf_open", "pf_loop", "pf_ret", "ef_init", "ef_loop", "ef_ret",
    "teardown" }

C2_ProtectedOutsideModify ==
  (pc \in OutsideModifyPcs \/ (pc = "done" /\ params.test = 0)) =>
    ~HasPin(CtrlPort(trace), PIN_nWP)

(***************************************************************************)
(* C3. When main has run a driver and releases the ports, the control port *)
(* holds nCE high and nWP low.                                             *)
(***************************************************************************)
C3_IdleAtRelease ==
  (pc = "done" /\ params.test = 0) =>
    /\ HasPin(CtrlPort(trace), PIN_nCE)
    /\ ~HasPin(CtrlPort(trace), PIN_nWP)

(***************************************************************************)
(* C4. During read_id and read_page no write to the control port changes   *)
(* nWP: every control byte of the sequence carries the nWP the port held   *)
(* before the sequence began.                                              *)
(***************************************************************************)
C4_ReadsKeepWriteProtect ==
  seq.name \in { "read_id", "read_page" } =>
    \A j \in SeqEvents :
      IsCw(j) => (HasPin(trace[j].v, PIN_nWP)
                    <=> HasPin(CtrlPortAt(trace, seq.from), PIN_nWP))

C4_Witness ==
  /\ seq.name = "read_page" /\ ~seq.open
  /\ params.count = 2 /\ loc.page_idx = params.start_page + 1
  /\ Cardinality({ j \in SeqEvents : IsCw(j) }) > 10

\* the first sample of the control port after event i that shows RDY = 1;
\* past the end of the record if there is none
FirstReadyAfter(i) ==
  LET ready == { k \in (i + 1)..Len(trace) :
                   trace[k].op = "cr" /\ HasPin(trace[k].v, PIN_RDY) }
  IN  IF ready = {} THEN Len(trace) + 1
      ELSE CHOOSE k \in ready : \A m \in ready : k <= m

(***************************************************************************)
(* C5. Once a confirm command (0x30, 0xD0, 0x10) is latched, no edge of    *)
(* nWE or nRE is pushed before a sample of the control port shows RDY = 1, *)
(* and wait_while_busy samples only when the last edge pushed is the nWE   *)
(* rising edge of a confirm command.                                       *)
(***************************************************************************)
C5_ReadyGating ==
  /\ \A i \in SeqEvents :
       CommandLatchedAt(i, ConfirmCommands) =>
         \A j \in (i + 1)..(FirstReadyAfter(i) - 1) : ~Pulse(j)
  /\ pc \in WaitPcs =>
       \E i \in SeqEvents :
         /\ CommandLatchedAt(i, ConfirmCommands)
         /\ \A j \in (i + 1)..Len(trace) : ~Pulse(j)

C5_Witness ==
  /\ pc = "pp_status_cmd"
  /\ \E i \in 1..Len(trace) :
       /\ CommandLatchedAt(i, { CMD_PAGEPROGRAM[2] })
       /\ i + 3 = Len(trace)
       /\ trace[i + 2].op = "cr" /\ ~HasPin(trace[i + 2].v, PIN_RDY)
       /\ trace[i + 3].op = "cr" /\ HasPin(trace[i + 3].v, PIN_RDY)

(***************************************************************************)
(* C6. program_page / erase_block return an error exactly when bit 0 of    *)
(* the status byte sampled last is 1, whatever the other bits.             *)
(***************************************************************************)
C6_StatusDecides ==
  SequenceReturned =>
    /\ LastIoSampleAt(Len(trace)) \in SeqEvents
    /\ (loc.rc # 0 <=> trace[LastIoSampleAt(Len(trace))].v % 2 = 1)

C6_Witness ==
  /\ pc = "ef_ret" /\ loc.rc = 0
  /\ trace[LastIoSampleAt(Len(trace))].v = 224

(***************************************************************************)
(* C7. A latch_command(c) that passes its check writes CLE high, nWE low,  *)
(* c on the I/O port, nWE high, CLE low and nothing else, and every        *)
(* control byte keeps nCE, nRE, nWP and ALE as the control port held them  *)
(* before the call.                                                        *)
(***************************************************************************)
C7_CommandFraming ==
  (last_call.fn = "latch_command" /\ last_call.ret = 0) =>
    LET f == last_call.from
    IN  /\ last_call.to = f + 5
        /\ IsCw(f + 1) /\ HasPin(trace[f + 1].v, PIN_CLE)
        /\ IsCw(f + 2) /\ ~HasPin(trace[f + 2].v, PIN_nWE)
        /\ trace[f + 3] = Ev("iw", last_call.arg[1])
        /\ IsCw(f + 4) /\ HasPin(trace[f + 4].v, PIN_nWE)
        /\ IsCw(f + 5) /\ ~HasPin(trace[f + 5].v, PIN_CLE)
        /\ \A j \in { f + 1, f + 2, f + 4, f + 5 } :
             KeptPins(trace[j].v) = KeptPins(last_call.port0)

(***************************************************************************)
(* C8. latch_command with nCE high or nRE low, and latch_address with nCE  *)
(* high, CLE high or nRE low, return an error, touch neither port and      *)
(* leave both shadows as they were; otherwise they return success.         *)
(***************************************************************************)
CallRefused ==
  /\ last_call.ret # 0
  /\ last_call.to = last_call.from
  /\ last_call.cv1 = last_call.cv0
  /\ last_call.iv1 = last_call.iv0

C9_DataInChecked ==
  ( /\ last_call.fn = "latch_data_out"
    /\ \/ HasPin(last_call.cv0, PIN_nCE)
       \/ HasPin(last_call.cv0, PIN_CLE)
       \/ ~HasPin(last_call.cv0, PIN_nRE) ) =>
    /\ last_call.ret # 0
    /\ \A j \in CallEvents : trace[j].op \notin { "cw", "iw" }

(***************************************************************************)
(* C10. The chip-to-host data output (latch_register) called with nCE      *)
(* high, nWE low, ALE high or CLE high returns an error without changing   *)
(* the I/O direction, pulsing nRE or sampling.                             *)
(***************************************************************************)
C10_RegisterChecked ==
  ( /\ last_call.fn = "latch_register"
    /\ \/ HasPin(last_call.cv0, PIN_nCE)
       \/ ~HasPin(last_call.cv0, PIN_nWE)
       \/ HasPin(last_call.cv0, PIN_ALE)
       \/ HasPin(last_call.cv0, PIN_CLE) ) =>
    /\ last_call.ret # 0
    /\ \A j \in CallEvents : trace[j].op \notin { "dir", "cw", "ir" }

\* entry j of the log is the last erase, before entry i, of the block that
\* holds page p; 0 if there is none
LastEraseBefore(i, p) ==
  LET erases == { j \in 1..(i - 1) :
                    /\ loc.log[j].op = "erase_block"
                    /\ loc.log[j].page = p \div PAGE_PER_BLOCK }
  IN  IF erases = {} THEN 0 ELSE CHOOSE j \in erases : \A k \in erases : k <= j

\* the program_page calls on page p since it was last erased, before entry i
ProgramsSinceErase(i, p) ==
  { j \in (LastEraseBefore(i, p) + 1)..(i - 1) :
      loc.log[j].op = "program_page" /\ loc.log[j].page = p }

(***************************************************************************)
(* C11. Against the simulated chip, a read of page p that follows exactly  *)
(* one program_page(p, B) since p was last erased gives exactly B, and a   *)
(* read of a page not programmed since it was erased gives the erased      *)
(* page: programming p leaves every other page as it was.                  *)
(***************************************************************************)
C11_RoundTrip ==
  \A i \in 1..Len(loc.log) :
    loc.log[i].op = "read_page" /\ loc.log[i].done =>
      LET progs == ProgramsSinceErase(i, loc.log[i].page)
      IN  /\ progs = {} => loc.log[i].data = ConstPage(255)
          /\ \A j \in progs :
               progs = {j} => loc.log[i].data = loc.log[j].data

C11_Witness ==
  /\ Len(loc.log) = 2
  /\ loc.log[1].op = "program_page" /\ loc.log[1].rc = 0
  /\ loc.log[2].op = "read_page" /\ loc.log[2].done
  /\ loc.log[2].page = loc.log[1].page
  /\ loc.log[2].data = MixedPage(165, 90)

\* the data of the first k calls of the log, one after the other
RECURSIVE LogData(_)
LogData(k) == IF k = 0 THEN <<>> ELSE LogData(k - 1) \o loc.log[k].data

DumpMode == params.test = 0 /\ params.do_program = 0 /\ params.do_erase = 0

\* the driver has returned 0 to main
DriverSucceeded == pc \in { "teardown", "done" } /\ loc.ret = 0

(***************************************************************************)
(* C12. dump_memory with count > 0 reads the pages start_page,             *)
(* start_page + 1, ... in ascending order, each once and at most count of  *)
(* them, all count when it returns 0; each page is appended to the output  *)
(* file with nothing around it and the file is flushed after each page:    *)
(* between pages and at the end the file holds exactly the pages read so   *)
(* far, one after the other.                                               *)
(***************************************************************************)
C12_DumpOrder ==
  DumpMode /\ params.count > 0 =>
    /\ Len(loc.log) <= params.count
    /\ \A i \in 1..Len(loc.log) :
         /\ loc.log[i].op = "read_page"
         /\ loc.log[i].page = params.start_page + i - 1
    /\ host.flushed = Len(host.sink)
    /\ pc = "dm_loop" \/ DriverSucceeded =>
         /\ host.sink = LogData(Len(loc.log))
         /\ Len(host.sink) = Len(loc.log) * PAGE_SIZE
    /\ DriverSucceeded => Len(loc.log) = params.count

C12_Witness ==
  /\ DumpMode /\ params.count > 1
  /\ pc = "dm_loop"
  /\ Len(loc.log) = 1
  /\ host.sink = loc.log[1].data
  /\ host.flushed = PAGE_SIZE

ProgramMode == params.test = 0 /\ params.do_program = 1

\* a page holding 0xFF everywhere, or 0x00 everywhere
Blank(buf) ==
  \/ \A k \in 1..Len(buf) : buf[k] = 255
  \/ \A k \in 1..Len(buf) : buf[k] = 0

\* the pages read from the input file that are not blank, in the order read
NonBlankReads ==
  LET NotBlank(buf) == ~Blank(buf) IN SelectSeq(host.reads, NotBlank)

(***************************************************************************)
(* C13. program_file calls program_page for a page read from the input     *)
(* file exactly when the page is neither 0xFF everywhere nor 0x00          *)
(* everywhere, and then with exactly the buffer read: the program_page     *)
(* calls are, in order, the non-blank pages read.                          *)
(***************************************************************************)
C13_SkipPolicy ==
  ProgramMode =>
    /\ Len(loc.log) = Len(NonBlankReads)
    /\ \A i \in 1..Len(loc.log) :
         /\ loc.log[i].op = "program_page"
         /\ loc.log[i].data = NonBlankReads[i]

C13_Witness ==
  /\ ProgramMode
  /\ Len(host.reads) = 2
  /\ host.reads[1] = ConstPage(0)
  /\ host.reads[2] = TailPage(255, 0)
  /\ Len(loc.log) = 1
  /\ loc.log[1].data = TailPage(255, 0)

\* the read, counted from 1, that the k-th program_page call is for
ReadOfCall(k) ==
  CHOOSE i \in 1..Len(host.reads) :
    /\ ~Blank(host.reads[i])
    /\ Cardinality({ j \in 1..i : ~Blank(host.reads[j]) }) = k

\* the whole pages the input file holds from page input_skip on
PagesAfterSkip ==
  LET bytes == Len(host.src) - params.input_skip * PAGE_SIZE
  IN  IF bytes < 0 THEN 0 ELSE bytes \div PAGE_SIZE

C15_Summary ==
  ProgramMode =>
    /\ DriverSucceeded /\ host.closed => loc.report # <<>>
    /\ loc.report # <<>> =>
         /\ DriverSucceeded
         /\ loc.report[1] = Len(host.reads)
         /\ loc.report[2] = Len(loc.log)
         /\ loc.report[3] = Len(host.reads) - Len(NonBlankReads)
         /\ loc.report[1] = loc.report[2] + loc.report[3]
    /\ loc.error # <<>> => loc.report = <<>>

C15_Witness ==
  /\ ProgramMode
  /\ loc.report = << 2, 1, 1 >>

(***************************************************************************)
(* C16. When program_page returns an error for page p, program_file stops: *)
(* no program_page call and no read of the input file follows, the error   *)
(* message names p, and program_file returns nonzero.                      *)
(***************************************************************************)
C16_AbortOnFailure ==
  ProgramMode =>
    \A i \in 1..Len(loc.log) :
      loc.log[i].done /\ loc.log[i].rc # 0 =>
        /\ i = Len(loc.log)
        /\ Len(NonBlankReads) = i
        /\ ~Blank(host.reads[Len(host.reads)])
        /\ pc \in { "pf_ret", "teardown", "done" }
        /\ pc # "pf_ret" =>
             /\ loc.ret # 0
             /\ loc.error # <<>>
             /\ loc.error[1] = loc.log[i].page

C16_Witness ==
  /\ ProgramMode /\ pc = "done"
  /\ params.input_skip = 0 /\ params.count = 2
  /\ Len(host.src) >= 2 * PAGE_SIZE
  /\ Len(host.reads) = 1
  /\ Len(loc.log) = 1 /\ loc.log[1].rc # 0
  /\ loc.error = << params.start_page, 0 >>
  /\ loc.ret # 0

\* event j is the nWE rising edge that latches an address byte
AddressLatchedAt(j) ==
  /\ j >= 2
  /\ Rises(j, PIN_nWE)
  /\ HasPin(trace[j].v, PIN_ALE)
  /\ trace[j - 1].op = "iw"

\* the address bytes latched by the events j..to, in order
RECURSIVE AddressBytes(_, _)
AddressBytes(j, to) ==
  IF j > to THEN <<>>
  ELSE (IF AddressLatchedAt(j) THEN << trace[j - 1].v >> ELSE <<>>)
         \o AddressBytes(j + 1, to)

EraseMode == params.test = 0 /\ params.do_program = 0 /\ params.do_erase = 1

(***************************************************************************)
(* C17. An erase_block(b) that has returned has raised ALE once and        *)
(* latched exactly three address bytes: the row bytes PA0..7, PA8..15,     *)
(* PA16..23 of page b * 64, and no column byte.                            *)
(***************************************************************************)
C17_EraseAddress ==
  pc = "ef_ret" =>
    LET page == loc.log[Len(loc.log)].page * PAGE_PER_BLOCK
    IN  /\ Cardinality({ j \in SeqEvents : Rises(j, PIN_ALE) }) = 1
        /\ AddressBytes(seq.from + 1, SeqEnd) =
             << page % 256, (page \div 256) % 256, (page \div 65536) % 256 >>

C17_Witness ==
  /\ EraseMode /\ pc = "ef_ret"
  /\ loc.log[Len(loc.log)].page = 5
  /\ AddressBytes(seq.from + 1, SeqEnd) = << 64, 1, 0 >>

(***************************************************************************)
(* C18. erase_flash with count > 0 calls erase_block for start_block,      *)
(* start_block + 1, ... in ascending order, each once and at most count of *)
(* them; it stops at the first block whose erase fails, calling            *)
(* erase_block for no later block and returning nonzero; when it returns 0 *)
(* all count blocks were erased.                                           *)
(***************************************************************************)
C18_EraseOrder ==
  EraseMode /\ params.count > 0 =>
    /\ Len(loc.log) <= params.count
    /\ \A i \in 1..Len(loc.log) :
         /\ loc.log[i].op = "erase_block"
         /\ loc.log[i].page = params.start_block + i - 1
         /\ loc.log[i].done /\ loc.log[i].rc # 0 =>
              /\ i = Len(loc.log)
              /\ pc \in { "ef_ret", "teardown", "done" }
              /\ pc # "ef_ret" => loc.ret # 0
    /\ DriverSucceeded =>
         /\ Len(loc.log) = params.count
         /\ \A i \in 1..Len(loc.log) : loc.log[i].rc = 0

C18_Witness ==
  /\ EraseMode /\ pc = "done"
  /\ params.start_block = 5 /\ params.count = 2
  /\ Len(loc.log) = 1
  /\ loc.log[1].page = 5 /\ loc.log[1].rc # 0
  /\ loc.ret # 0

\* the n bits of x from bit lo up
Bits(x, lo, n) == (x \div (2 ^ lo)) % (2 ^ n)

(***************************************************************************)
(* C19. For every page and column the five address cycles are              *)
(* column & 0xFF, (column >> 8) & 0xFF, page & 0xFF, (page >> 8) & 0xFF,   *)
(* (page >> 16) & 0xFF; page 0x01A2B3 with column 0 gives 00 00 B3 A2 01   *)
(* and page 0 with column 0x0123 gives 23 01 00 00 00.                     *)
(***************************************************************************)
C19_AddressPacking ==
  pc = "addr" /\ loc.addr_cycles # <<>> =>
    /\ loc.addr_cycles = << Bits(loc.column, 0, 8), Bits(loc.column, 8, 8),
                            Bits(loc.page_idx, 0, 8), Bits(loc.page_idx, 8, 8),
                            Bits(loc.page_idx, 16, 8) >>
    /\ loc.page_idx = 107187 /\ loc.column = 0 =>
         loc.addr_cycles = << 0, 0, 179, 162, 1 >>
    /\ loc.page_idx = 0 /\ loc.column = 291 =>
         loc.addr_cycles = << 35, 1, 0, 0, 0 >>

C19_Witness ==
  /\ pc = "addr"
  /\ loc.page_idx = 107187 /\ loc.column = 0
  /\ loc.addr_cycles = << 0, 0, 179, 162, 1 >>

\* the command line gives option c
Given(c) == \E k \in 1..Len(host.argv) : host.argv[k].opt = c

(***************************************************************************)
(* C20. A command line that gives -s together with -b, or -s together with *)
(* -E, whatever the page and block numbers, makes argument parsing fail:   *)
(* main ends with exit code 1 and nothing is written to or set on a port.  *)
(***************************************************************************)
C20_ArgumentError ==
  Given("s") /\ (Given("b") \/ Given("E")) /\ pc # "parse" =>
    /\ pc = "done"
    /\ loc.ret = 1
    /\ trace = <<>>

(***************************************************************************)
(* C21. In dump mode an output file that exists, without -o, ends main     *)
(* with exit code 2 before any port is opened or written and with the file *)
(* neither opened nor truncated; with -p or -E the file never gives 2.     *)
(***************************************************************************)
C21_ExistingOutput ==
  /\ DumpMode /\ host.exists /\ params.overwrite = 0
       /\ pc \notin { "parse", "exists" } /\ loc.ret # 1 =>
         /\ pc = "done"
         /\ loc.ret = 2
         /\ trace = <<>>
         /\ host.sink = OldDump
         /\ ~host.closed
  /\ params.do_program = 1 \/ params.do_erase = 1 => loc.ret # 2

C21_Witness ==
  /\ pc = "done" /\ loc.ret = 2
  /\ DumpMode /\ Given("s") /\ ~Given("o")
  /\ host.sink = OldDump /\ trace = <<>>

(***************************************************************************)
(* C22. With count = 0 the dump and the programming go on to the end of    *)
(* the device: the page count is 131072 - start_page and no page index     *)
(* >= 131072 is read or programmed; with count = 0 the erase takes exactly *)
(* the blocks start_block .. 2047.                                         *)
(***************************************************************************)
C22_CountZero ==
  params.test = 0 /\ params.count = 0 =>
    /\ \A k \in 1..Len(loc.log) :
         IF loc.log[k].op = "erase_block"
           THEN /\ loc.log[k].page = params.start_block + k - 1
                /\ loc.log[k].page <= 2047
           ELSE loc.log[k].page < 131072
    /\ DumpMode =>
         /\ Len(loc.log) <= 131072 - params.start_page
         /\ DriverSucceeded => Len(loc.log) = 131072 - params.start_page
    /\ ProgramMode =>
         /\ Len(host.reads) <= 131072 - params.start_page
         /\ pc \notin { "bringup", "wiring", "idle", "id_cmd", "id_addr", "id_reg",
                        "dispatch", "pf_open" } /\ loc.ret = 0 =>
               loc.count = 131072 - params.start_page
    /\ EraseMode /\ DriverSucceeded =>
         Len(loc.log) = 2048 - params.start_block

C22_Witness ==
  /\ DumpMode /\ params.count = 0 /\ params.start_page = 131072 - MaxCount
  /\ pc = "done" /\ loc.ret = 0
  /\ Len(loc.log) = MaxCount /\ loc.log[MaxCount].page = 131071

(***************************************************************************)
(* C23. When a read or write of the transport fails while dump_memory is   *)
(* reading page p, the dump aborts: it reports p as the failing page,      *)
(* returns an error, appends neither p nor any later page to the output    *)
(* file and leaves in it the pages written before.                         *)
(***************************************************************************)
C23_TransportAbort ==
  host.fault # <<>> =>
    LET p == host.fault[1]
    IN  /\ Len(host.sink) <= (p - params.start_page) * PAGE_SIZE
        /\ \A k \in 1..Len(loc.log) : loc.log[k].page <= p
        /\ pc \in { "teardown", "done" } =>
              /\ loc.ret # 0
              /\ Len(host.sink) = (p - params.start_page) * PAGE_SIZE

\* the positions in the record at which a command byte is latched
CommandLatches ==
  { j \in 2..Len(trace) : Rises(j, PIN_nWE) /\ HasPin(trace[j].v, PIN_CLE)
                            /\ trace[j - 1].op = "iw" }

BeforeDriverPcs ==
  { "bringup", "wiring", "idle", "id_cmd", "id_addr", "id_reg", "dispatch",
    "dm_open", "pf_open", "ef_init" }

\* the calls the driver makes
DriverCalls(driver) ==
  CASE driver = "dump_memory" -> "read_page"
    [] driver = "program_file" -> "program_page"
    [] driver = "erase_flash" -> "erase_block"

(***************************************************************************)
(* C24. A run that is not a self test pushes the idle state, then reads    *)
(* the ID exactly once, then enters exactly one of dump_memory,            *)
(* program_file and erase_flash exactly once, whatever -p and -E were      *)
(* given and whatever ID was read.                                         *)
(***************************************************************************)
C24_Orchestration ==
  params.test = 0 =>
    /\ pc \in BeforeDriverPcs => loc.entered = <<>> /\ loc.log = <<>>
    /\ pc \in { "id_addr", "id_reg", "dispatch", "teardown", "done" } =>
         LET ids == { j \in CommandLatches : trace[j - 1].v = CMD_READID }
         IN  /\ Cardinality(ids) = 1
             /\ \A j \in ids :
                  /\ \A k \in CommandLatches : k >= j
                  /\ j >= 5
                  /\ trace[j - 4].op = "cw"
                  /\ HasPin(trace[j - 4].v, PIN_nRE)
                  /\ ~HasPin(trace[j - 4].v, PIN_nCE)
                  /\ ~HasPin(trace[j - 4].v, PIN_nWP)
                  /\ \A k \in 1..(j - 5) : trace[k].op \notin { "cw", "iw" }
                                              \/ trace[k].v = 0
    /\ pc \notin BeforeDriverPcs =>
         /\ Len(loc.entered) = 1
         /\ \A k \in 1..Len(loc.log) : loc.log[k].op = DriverCalls(loc.entered[1])

C24_Witness ==
  /\ pc = "done" /\ loc.ret = 0
  /\ params.test = 0 /\ params.do_program = 1 /\ params.do_erase = 1
  /\ loc.ID_register # ID_register_exp
  /\ loc.entered = << "program_file" >>
  /\ Len(loc.log) = 1

\* the writes to the I/O port in the sequence in progress or last run
IoWrites == { j \in SeqEvents : trace[j].op = "iw" }

(***************************************************************************)
(* C25. In every command sequence each byte written to the I/O port is     *)
(* written while the control port holds nWE low, and the next write of the *)
(* transport is the control byte that raises nWE: no byte is put on the    *)
(* I/O port between a rising edge of nWE and the next falling edge.        *)
(***************************************************************************)
C25_IoWriteSerialised ==
  \A j \in IoWrites :
    /\ ~HasPin(CtrlPortAt(trace, j - 1), PIN_nWE)
    /\ j < Len(trace)
    /\ Rises(j + 1, PIN_nWE)

\* a program_page that has returned: two commands, five address bytes, the
\* page and the status command went over the I/O port
C25_Witness ==
  /\ pc = "pf_ret"
  /\ seq.name = "program_page"
  /\ Cardinality(IoWrites) = 8 + PAGE_SIZE

\* the samples of the I/O port in the last call of a latch primitive
CallSamples == { j \in CallEvents : trace[j].op = "ir" }

\* the control shadow a call of latch_register asks for: nCE low, nWE high,
\* ALE low, CLE low
RegisterPrecondition(v) ==
  /\ ~HasPin(v, PIN_nCE) /\ HasPin(v, PIN_nWE)
  /\ ~HasPin(v, PIN_ALE) /\ ~HasPin(v, PIN_CLE)

(***************************************************************************)
(* C26. A latch_register called with its precondition satisfied samples    *)
(* the I/O port with the port set to input, every sample with nRE low on   *)
(* the control port and after the falling edge of nRE was pushed, takes    *)
(* exactly one sample per byte of the buffer, and returns with the I/O     *)
(* port set to output and nRE high.                                        *)
(***************************************************************************)
C26_RegisterSampling ==
  last_call.fn = "latch_register" /\ RegisterPrecondition(last_call.cv0) =>
    /\ last_call.ret = 0
    /\ \A j \in CallSamples :
         /\ IoDirAt(trace, j) = IOBUS_IN
         /\ ~HasPin(CtrlPortAt(trace, j), PIN_nRE)
         /\ Falls(j - 1, PIN_nRE)
    /\ Cardinality(CallSamples) = Len(last_call.arg)
    /\ IoDirAt(trace, last_call.to) = IOBUS_OUT
    /\ HasPin(CtrlPortAt(trace, last_call.to), PIN_nRE)

\* what the chip sees at event j of the record: a command, address or data
\* byte latched on a rising edge of nWE, a sample of the I/O port, a sample
\* of the control port, or nothing
Item(j) ==
  IF trace[j].op = "ir" THEN << [k |-> "read", v |-> trace[j].v] >>
  ELSE IF trace[j].op = "cr" THEN << [k |-> "wait", v |-> trace[j].v] >>
  ELSE IF j >= 2 /\ Rises(j, PIN_nWE) /\ trace[j - 1].op = "iw"
    THEN << [k |-> IF HasPin(trace[j].v, PIN_CLE) THEN "command"
                   ELSE IF HasPin(trace[j].v, PIN_ALE) THEN "address"
                   ELSE "data",
             v |-> trace[j - 1].v] >>
  ELSE <<>>

RECURSIVE Items(_, _)
Items(j, to) == IF j > to THEN <<>> ELSE Item(j) \o Items(j + 1, to)

\* the items of the sequence last run
SeqItems == Items(seq.from + 1, seq.to)

ItemsOf(kind, bytes) == [i \in 1..Len(bytes) |-> [k |-> kind, v |-> bytes[i]]]

\* column 0 and the three row bytes of page
PageAddress(page) ==
  << 0, 0, Bits(page, 0, 8), Bits(page, 8, 8), Bits(page, 16, 8) >>

\* w is a ready wait: samples of the control port, at least one, the last
\* one and no other with RDY set
ReadyWait(w) ==
  /\ Len(w) >= 1
  /\ \A i \in 1..Len(w) :
       w[i].k = "wait" /\ (HasPin(w[i].v, PIN_RDY) <=> i = Len(w))

\* the last call in the log
LastLogged == loc.log[Len(loc.log)]

(***************************************************************************)
(* C27. program_page(page, buf) latches, in this order and nothing else:   *)
(* command 0x80, five address bytes (column 0, then the three row bytes of *)
(* the page), the 2112 bytes of buf in index order as data, command 0x10,  *)
(* then waits for ready, latches command 0x70 and reads one status byte.   *)
(***************************************************************************)
C27_ProgramSequence ==
  pc = "pf_ret" =>
    LET its  == SeqItems
        head == ((<< [k |-> "command", v |-> 128] >>
                    \o ItemsOf("address", PageAddress(LastLogged.page)))
                    \o ItemsOf("data", LastLogged.data))
                    \o << [k |-> "command", v |-> 16] >>
        n    == Len(its)
    IN  /\ seq.name = "program_page"
        /\ LastLogged.op = "program_page"
        /\ Len(LastLogged.data) = PAGE_SIZE
        /\ n >= Len(head) + 3
        /\ SubSeq(its, 1, Len(head)) = head
        /\ ReadyWait(SubSeq(its, Len(head) + 1, n - 2))
        /\ its[n - 1] = [k |-> "command", v |-> 112]
        /\ its[n] = [k |-> "read", v |-> loc.status_register]

C27_Witness ==
  /\ pc = "pf_ret"
  /\ LastLogged.page = 101
  /\ LastLogged.data = MixedPage(165, 255)
  /\ Len(SeqItems) = 11 + PAGE_SIZE

(***************************************************************************)
(* C28. The read of a page latches, in this order and nothing else:        *)
(* command 0x00, five address bytes with column 0 and the page, command    *)
(* 0x30, then waits for ready and gives exactly 2112 pulses of nRE whose   *)
(* samples fill the page buffer in index order.                            *)
(***************************************************************************)
C28_ReadSequence ==
  pc = "dm_write" =>
    LET its  == SeqItems
        head == (<< [k |-> "command", v |-> 0] >>
                    \o ItemsOf("address", PageAddress(LastLogged.page)))
                    \o << [k |-> "command", v |-> 48] >>
        n    == Len(its)
    IN  /\ seq.name = "read_page"
        /\ LastLogged.op = "read_page"
        /\ LastLogged.page = loc.page_idx
        /\ Len(loc.mem_large_block) = PAGE_SIZE
        /\ n >= Len(head) + 1 + PAGE_SIZE
        /\ SubSeq(its, 1, Len(head)) = head
        /\ ReadyWait(SubSeq(its, Len(head) + 1, n - PAGE_SIZE))
        /\ SubSeq(its, n - PAGE_SIZE + 1, n) = ItemsOf("read", loc.mem_large_block)
        /\ \A j \in SeqEvents :
             trace[j].op = "ir" => Falls(j - 1, PIN_nRE) /\ Rises(j + 1, PIN_nRE)
        /\ Cardinality({ j \in SeqEvents : Falls(j, PIN_nRE) }) = PAGE_SIZE

C28_Witness ==
  /\ pc = "dm_write"
  /\ LastLogged.page = 11
  /\ loc.mem_large_block = MixedPage(0, 255)
  /\ Len(SeqItems) = 9 + PAGE_SIZE

\* the record of SpecWait from the call of wait_while_busy on
WaitEvents == 3..Len(trace)

WaitReturned == pc \notin WaitPcs

(***************************************************************************)
(* C29. wait_while_busy returns only after a sample of the control port    *)
(* with RDY (bit 6) set, takes at least one sample, writes to no port and  *)
(* changes no shadow; it has no timeout: when the chip comes to answer     *)
(* ready it returns, and while RDY stays 0 it does not return.             *)
(***************************************************************************)
C29_WaitReady ==
  /\ [](/\ \A j \in WaitEvents : trace[j].op = "cr"
        /\ \A j \in WaitEvents : HasPin(trace[j].v, PIN_RDY) =>
               j = Len(trace) /\ WaitReturned
        /\ WaitReturned =>
               Len(trace) >= 3 /\ HasPin(trace[Len(trace)].v, PIN_RDY)
        /\ host.stuck => ~WaitReturned)
  /\ [][controlbus_value' = controlbus_value /\ iobus_value' = iobus_value]_vars
  /\ (~host.stuck /\ ~WaitReturned) ~> WaitReturned

\* a wait that has returned after MaxBusy busy samples and a ready one
C29_Witness ==
  /\ WaitReturned
  /\ Len(trace) = 3 + MaxBusy
  /\ HasPin(trace[Len(trace)].v, PIN_RDY)
  /\ ~HasPin(trace[3].v, PIN_RDY)

\* what a latch primitive asks of the control shadow v it is called with
LatchPrecondition(fn, v) ==
  CASE fn = "latch_command" -> ~HasPin(v, PIN_nCE) /\ HasPin(v, PIN_nRE)
    [] fn \in { "latch_address", "latch_data_out" } ->
         ~HasPin(v, PIN_nCE) /\ ~HasPin(v, PIN_CLE) /\ HasPin(v, PIN_nRE)
    [] fn = "latch_register" -> RegisterPrecondition(v)

(***************************************************************************)
(* C30. In a run that is not a self test every call of a latch primitive   *)
(* made while the ID, a page, a programming or an erase is in progress     *)
(* finds its precondition on the control shadow, so no primitive returns   *)
(* an error and no step of a command sequence is left out.                 *)
(***************************************************************************)
C30_PreconditionsHold ==
  params.test = 0 /\ last_call.fn # "" =>
    /\ LatchPrecondition(last_call.fn, last_call.cv0)
    /\ last_call.ret = 0
    /\ last_call.to > last_call.from
    /\ seq.name \in { "read_id", "read_page", "program_page", "erase_block" }

C30_Witness ==
  /\ pc = "pp_cmd1"
  /\ last_call.fn = "latch_data_out"
  /\ last_call.cv0 = PIN_nRE + PIN_nWE + PIN_nWP
  /\ last_call.ret = 0

ModifyCommands == { CMD_PAGEPROGRAM[1], CMD_PAGEPROGRAM[2],
                    CMD_BLOCKERASE[1], CMD_BLOCKERASE[2] }

\* event j of the sequence latches a modifying command, an address cycle or
\* a data-in byte
ModifyLatches ==
  { j \in SeqEvents :
      /\ j >= 2
      /\ trace[j - 1].op = "iw"
      /\ Rises(j, PIN_nWE)
      /\ HasPin(trace[j].v, PIN_CLE) => trace[j - 1].v \in ModifyCommands }

(***************************************************************************)
(* C31. During program_page and erase_block, at every rising edge of nWE   *)
(* that latches a modifying command (0x80, 0x10, 0x60, 0xD0), an address   *)
(* cycle or a data-in byte, nWP is already high on the control port: every *)
(* byte written to the control port in the sequence, from the first one    *)
(* on, has nWP high.                                                       *)
(***************************************************************************)
C31_UnprotectedAtLatch ==
  seq.name \in { "program_page", "erase_block" } =>
    /\ \A j \in ModifyLatches :
         /\ HasPin(CtrlPortAt(trace, j - 1), PIN_nWP)
         /\ HasPin(trace[j].v, PIN_nWP)
    /\ \A j \in SeqEvents : IsCw(j) => HasPin(trace[j].v, PIN_nWP)

\* an erase_block that has returned: two commands and three address cycles
C31_Witness ==
  /\ pc = "ef_ret"
  /\ seq.name = "erase_block"
  /\ Cardinality(ModifyLatches) = 5

\* the record is only added to: what the last step added lies in the last
\* call of a primitive or, after the bring-up, the idle push and the release
\* of the ports, somewhere in the whole record
WrittenLast ==
  IF pc \in { "wiring", "id_cmd", "done" } THEN 1..Len(trace) ELSE CallEvents

(***************************************************************************)
(* C32. In a run that is not a self test no byte written to the control    *)
(* port has CLE and ALE high together, and every latch primitive returns   *)
(* with CLE low, ALE low, nWE high and nRE high on the control port.       *)
(***************************************************************************)
C32_LatchEnablesExclusive ==
  params.test = 0 =>
    /\ \A j \in WrittenLast :
         IsCw(j) => ~(HasPin(trace[j].v, PIN_CLE) /\ HasPin(trace[j].v, PIN_ALE))
    /\ last_call.fn # "" =>
         LET port == CtrlPortAt(trace, last_call.to)
         IN  /\ last_call.to > last_call.from
             /\ ~HasPin(port, PIN_CLE)
             /\ ~HasPin(port, PIN_ALE)
             /\ HasPin(port, PIN_nWE)
             /\ HasPin(port, PIN_nRE)

\* the address cycles of a program_page have been latched
C32_Witness ==
  /\ pc = "pp_data"
  /\ last_call.fn = "latch_address"
  /\ Len(last_call.arg) = 5
  /\ CtrlPortAt(trace, last_call.to) = PIN_nWE + PIN_nRE + PIN_nWP

====
